---- MODULE Spec2Model ----
(***************************************************************************)
(* Notification service: the queue consumer (lambda_functions/sqs_consumer)*)
(* and the event processor (lambda_functions/event_processor).             *)
(*                                                                         *)
(* Python strings are sequences of one-character strings, so that lower(), *)
(* substring tests and equality are computed and not assumed.  JSON / Python*)
(* values are tagged records: Str, Num, Bool, PyNone, List, Dict.  A dict  *)
(* is a function whose domain is the set of keys present.  An operation    *)
(* that may raise returns Ok(v) or Raise(e).                               *)
(***************************************************************************)
EXTENDS Integers, Sequences, FiniteSets, TLC

VARIABLES
    queue,                \* SQS: the messages visible in notification-service-queue
    Records,              \* sqs consumer: event["Records"] of the running invocation
    idx,                  \* sqs consumer: position of the for loop in Records
    successful_messages,  \* sqs consumer: lambda_handler's local list
    failed_messages,      \* sqs consumer: lambda_handler's local list
    response,             \* sqs consumer: the value returned by lambda_handler
    invocations,          \* sqs consumer: lambda_client.invoke calls of this invocation
    pc,                   \* sqs consumer: "idle", "loop" or "returned"
    deliveries,           \* SQS: number of batches handed to the consumer so far
    succeeded_ever,       \* SQS: messageIds reported succeeded by a finished invocation
    prev_failed,          \* SQS: messageIds reported failed by the preceding invocation
    SLACK_NOTIFIER_ARN,   \* environment: TRUE iff the variable is set and non-empty
    ep_event,             \* event processor: the event given to lambda_handler
    ep_pc,                \* event processor: "start", "notify", "respond", "except", "failed" or "done"
    ep_result,            \* event processor: what process_event returned, or the exception caught
    ep_forward,           \* event processor: the value should_notify_slack returned
    ep_invocations,       \* event processor: lambda_client.invoke calls made
    ep_response,          \* event processor: the value returned by lambda_handler
    SLACK_WEBHOOK_URL,    \* environment of the slack notifier: None, "" or the URL
    sn_event,             \* slack notifier: the event given to lambda_handler
    sn_pc,                \* slack notifier: "start", "build", "send", "ok", "except" or "done"
    sn_message,           \* slack notifier: slack_message, once built
    sn_result,            \* slack notifier: what send_to_slack returned, or the exception caught
    sn_requests,          \* slack notifier: the http.request calls made
    sn_response,          \* slack notifier: the value returned by lambda_handler
    ex_message,           \* extract_notification_details: its argument
    ex_pc,                \* extract_notification_details: "start" or "done"
    ex_notification       \* extract_notification_details: what it returned or raised

vars == <<queue, Records, idx, successful_messages, failed_messages, response,
          invocations, pc, deliveries, succeeded_ever, prev_failed,
          SLACK_NOTIFIER_ARN, ep_event, ep_pc, ep_result, ep_forward,
          ep_invocations, ep_response, SLACK_WEBHOOK_URL, sn_event, sn_pc,
          sn_message, sn_result, sn_requests, sn_response, ex_message, ex_pc,
          ex_notification>>

consumer_vars == <<queue, Records, idx, successful_messages, failed_messages,
                   response, invocations, pc, deliveries, succeeded_ever,
                   prev_failed>>

processor_vars == <<ep_event, ep_pc, ep_result, ep_forward, ep_invocations,
                    ep_response>>

notifier_vars == <<SLACK_WEBHOOK_URL, sn_event, sn_pc, sn_message, sn_result,
                   sn_requests, sn_response>>

extract_vars == <<ex_message, ex_pc, ex_notification>>

-----------------------------------------------------------------------------
(* Bounds of the model *)

MaxBatch == 3

MaxDeliveries == 2

MaxDetailKeys == 3

-----------------------------------------------------------------------------
(* Python strings *)

UpperCase == <<"A", "B", "C", "D", "E", "F", "G", "H", "I", "J", "K", "L", "M",
               "N", "O", "P", "Q", "R", "S", "T", "U", "V", "W", "X", "Y", "Z">>

LowerCase == <<"a", "b", "c", "d", "e", "f", "g", "h", "i", "j", "k", "l", "m",
               "n", "o", "p", "q", "r", "s", "t", "u", "v", "w", "x", "y", "z">>

Digits == {"0", "1", "2", "3", "4", "5", "6", "7", "8", "9"}

LowerChar(c) ==
    IF \E i \in 1..26 : UpperCase[i] = c
    THEN LowerCase[CHOOSE i \in 1..26 : UpperCase[i] = c]
    ELSE c

\* str.lower()
Lower(s) == [i \in 1..Len(s) |-> LowerChar(s[i])]

\* word in s, for two strings
Contains(s, word) ==
    \E i \in 0..(Len(s) - Len(word)) :
        \A j \in 1..Len(word) : s[i + j] = word[j]

S_Error == <<"E", "r", "r", "o", "r">>
S_Failure == <<"F", "a", "i", "l", "u", "r", "e">>
S_PaymentFailed == <<"P", "a", "y", "m", "e", "n", "t", " ", "F", "a", "i", "l", "e", "d">>
S_SecurityAlert == <<"S", "e", "c", "u", "r", "i", "t", "y", " ", "A", "l", "e", "r", "t">>
S_UserRegistered == <<"U", "s", "e", "r", " ", "R", "e", "g", "i", "s", "t", "e", "r", "e", "d">>
S_OrderCreated == <<"O", "r", "d", "e", "r", " ", "C", "r", "e", "a", "t", "e", "d">>
S_unknown == <<"u", "n", "k", "n", "o", "w", "n">>
S_notification == <<"n", "o", "t", "i", "f", "i", "c", "a", "t", "i", "o", "n">>
S_sqs == <<"s", "q", "s">>
S_custom_notifications == <<"c", "u", "s", "t", "o", "m", ".", "n", "o", "t", "i", "f", "i", "c", "a", "t", "i", "o", "n", "s">>
S_normal == <<"n", "o", "r", "m", "a", "l">>
S_high == <<"h", "i", "g", "h">>
S_critical == <<"c", "r", "i", "t", "i", "c", "a", "l">>
S_urgent == <<"u", "r", "g", "e", "n", "t">>
S_error == <<"e", "r", "r", "o", "r">>
S_failure == <<"f", "a", "i", "l", "u", "r", "e">>
S_alert == <<"a", "l", "e", "r", "t">>
S_user == <<"u", "s", "e", "r">>
S_registered == <<"r", "e", "g", "i", "s", "t", "e", "r", "e", "d">>
S_order == <<"o", "r", "d", "e", "r">>
S_payment == <<"p", "a", "y", "m", "e", "n", "t">>
S_null == <<"n", "u", "l", "l">>

\* datetime.now(timezone.utc).isoformat(): some non-empty text
S_now == <<"2", "0", "2", "6", "-", "0", "1", "-", "0", "1", "T", "0", "0", ":", "0", "0", ":", "0", "0">>

\* strings that occur only in inputs
S_Info == <<"I", "n", "f", "o">>
S_DiskAlert == <<"D", "i", "s", "k", " ", "A", "l", "e", "r", "t">>
S_HIGH == <<"H", "I", "G", "H">>
S_Critical == <<"C", "r", "i", "t", "i", "c", "a", "l">>
S_URGENT == <<"U", "R", "G", "E", "N", "T">>
S_low == <<"l", "o", "w">>
S_hello == <<"h", "e", "l", "l", "o">>
S_42 == <<"4", "2">>
S_app == <<"a", "p", "p">>
S_PaymentFailure == <<"P", "a", "y", "m", "e", "n", "t", " ", "F", "a", "i", "l", "u", "r", "e">>

-----------------------------------------------------------------------------
(* Python / JSON values *)

Str(s) == [t |-> "str", s |-> s]
Num(n) == [t |-> "num", n |-> n]
Bool(b) == [t |-> "bool", b |-> b]
List(l) == [t |-> "list", l |-> l]
Dict(d) == [t |-> "dict", d |-> d]
PyNone == [t |-> "null"]
EmptyDict == Dict(<< >>)

\* the text json.dumps(v) produces
JsonText(v) == [t |-> "str", enc |-> v]

IsStr(v) == v.t = "str" /\ "s" \in DOMAIN v
IsDict(v) == v.t = "dict"

\* bool(v)
Truthy(v) ==
    CASE v.t = "null" -> FALSE
      [] v.t = "bool" -> v.b
      [] v.t = "num"  -> v.n # 0
      [] v.t = "list" -> Len(v.l) > 0
      [] v.t = "dict" -> DOMAIN v.d # {}
      [] OTHER        -> IF "s" \in DOMAIN v THEN Len(v.s) > 0 ELSE TRUE

\* a or b
PyOr(a, b) == IF Truthy(a) THEN a ELSE b

\* d.get(key, default) on a dict's mapping
Get(d, key, default) == IF key \in DOMAIN d THEN d[key] ELSE default

Ok(v) == [ok |-> TRUE, val |-> v]
Raise(e) == [ok |-> FALSE, err |-> e]

-----------------------------------------------------------------------------
(* lambda_functions/sqs_consumer/handler.py *)

DigitValue(c) ==
    CHOOSE n \in 0..9 : <<"0", "1", "2", "3", "4", "5", "6", "7", "8", "9">>[n + 1] = c

RECURSIVE IntValue(_)
IntValue(s) ==
    IF Len(s) = 0 THEN 0
    ELSE 10 * IntValue(SubSeq(s, 1, Len(s) - 1)) + DigitValue(s[Len(s)])

\* json.loads(body): the text of json.dumps(v) decodes to v; of other texts a
\* number and null decode, anything else is a JSONDecodeError; None is a TypeError
json_loads(body) ==
    IF body.t = "null" THEN Raise("TypeError")
    ELSE IF "enc" \in DOMAIN body THEN Ok(body.enc)
    ELSE IF body.s = S_null THEN Ok(PyNone)
    ELSE IF /\ Len(body.s) > 0
            /\ \A i \in 1..Len(body.s) : body.s[i] \in Digits
            /\ (Len(body.s) = 1 \/ body.s[1] # "0")
         THEN Ok(Num(IntValue(body.s)))
    ELSE Raise("JSONDecodeError")

extract_notification_details(message_data) ==
    IF message_data.t \in {"null", "num", "bool"}
    THEN Raise("TypeError")          \* "detail" in message_data
    ELSE IF ~IsDict(message_data)
    THEN Raise("AttributeError")     \* message_data.get on a str or a list
    ELSE LET d == message_data.d IN
         IF "detail" \in DOMAIN d
         THEN Ok([type      |-> Get(d, "detail-type", Str(S_unknown)),
                  source    |-> Get(d, "source", Str(S_unknown)),
                  timestamp |-> PyOr(Get(d, "timestamp", PyNone), Get(d, "time", PyNone)),
                  details   |-> Get(d, "detail", EmptyDict)])
         ELSE Ok([type      |-> Get(d, "type", Str(S_notification)),
                  source    |-> Get(d, "source", Str(S_sqs)),
                  timestamp |-> Get(d, "timestamp", Str(S_now)),
                  details   |-> message_data])

handle_user_registration(details) ==
    IF ~IsDict(details) THEN Raise("AttributeError")
    ELSE Ok([action  |-> "user_registered",
             user_id |-> PyOr(Get(details.d, "userId", PyNone), Get(details.d, "user_id", PyNone)),
             email   |-> Get(details.d, "email", PyNone),
             status  |-> "processed"])

handle_order_notification(details) ==
    IF ~IsDict(details) THEN Raise("AttributeError")
    ELSE Ok([action   |-> "order_processed",
             order_id |-> PyOr(Get(details.d, "orderId", PyNone), Get(details.d, "order_id", PyNone)),
             status   |-> "processed"])

handle_payment_notification(details) ==
    IF ~IsDict(details) THEN Raise("AttributeError")
    ELSE Ok([action     |-> "payment_processed",
             payment_id |-> PyOr(Get(details.d, "paymentId", PyNone), Get(details.d, "payment_id", PyNone)),
             amount     |-> Get(details.d, "amount", PyNone),
             status     |-> "processed"])

handle_error_notification(details) ==
    IF ~IsDict(details) THEN Raise("AttributeError")
    ELSE Ok([action |-> "error_logged",
             error  |-> PyOr(Get(details.d, "message", PyNone), Get(details.d, "error", PyNone)),
             status |-> "processed"])

\* json.dumps(details) succeeds for every decoded JSON value
handle_generic_notification(details) ==
    Ok([action |-> "generic_processed", status |-> "processed"])

\* as handle_notification, with the test for error and failure ahead of the others
handle_notification_ErrorFirst(notification) ==
    IF ~IsStr(notification.type) THEN Raise("AttributeError")
    ELSE LET notification_type == Lower(notification.type.s)
             details == notification.details
         IN  IF Contains(notification_type, S_error) \/ Contains(notification_type, S_failure)
             THEN handle_error_notification(details)
             ELSE IF Contains(notification_type, S_user) /\ Contains(notification_type, S_registered)
             THEN handle_user_registration(details)
             ELSE IF Contains(notification_type, S_order)
             THEN handle_order_notification(details)
             ELSE IF Contains(notification_type, S_payment)
             THEN handle_payment_notification(details)
             ELSE handle_generic_notification(details)

handle_notification(notification) ==
    IF ~IsStr(notification.type) THEN Raise("AttributeError")   \* .lower()
    ELSE LET notification_type == Lower(notification.type.s)
             details == notification.details
         IN  IF Contains(notification_type, S_user) /\ Contains(notification_type, S_registered)
             THEN handle_user_registration(details)
             ELSE IF Contains(notification_type, S_order)
             THEN handle_order_notification(details)
             ELSE IF Contains(notification_type, S_payment)
             THEN handle_payment_notification(details)
             ELSE IF Contains(notification_type, S_error) \/ Contains(notification_type, S_failure)
             THEN handle_error_notification(details)
             ELSE handle_generic_notification(details)

\* as sqs_should_notify_slack, taking a priority that is not a string as "normal"
sqs_should_notify_slack_TolerantPriority(notification) ==
    IF ~IsDict(notification.details) THEN Raise("AttributeError")
    ELSE IF ~IsStr(notification.type) THEN Raise("AttributeError")
    ELSE LET notification_type == Lower(notification.type.s)
             given == Get(notification.details.d, "priority", Str(S_normal))
             p == IF IsStr(given) THEN given ELSE Str(S_normal)
         IN  IF Lower(p.s) \in {S_high, S_critical, S_urgent} THEN Ok(TRUE)
             ELSE IF \E word \in {S_error, S_failure, S_alert} : Contains(notification_type, word)
             THEN Ok(TRUE)
             ELSE Ok(FALSE)

sqs_should_notify_slack(notification) ==
    IF ~IsDict(notification.details) THEN Raise("AttributeError")   \* details.get
    ELSE IF ~IsStr(notification.type) THEN Raise("AttributeError")  \* .lower()
    ELSE LET notification_type == Lower(notification.type.s)
             p == Get(notification.details.d, "priority", Str(S_normal))
         IN  IF ~IsStr(p) THEN Raise("AttributeError")              \* .lower()
             ELSE IF Lower(p.s) \in {S_high, S_critical, S_urgent} THEN Ok(TRUE)
             ELSE IF \E word \in {S_error, S_failure, S_alert} : Contains(notification_type, word)
             THEN Ok(TRUE)
             ELSE Ok(FALSE)

\* as invoke_slack_notifier, without the except clause around the call
invoke_slack_notifier_Reraise(notification, arn, invoke_ok) ==
    IF ~arn THEN [out |-> Ok(PyNone), calls |-> << >>]
    ELSE [out   |-> IF invoke_ok THEN Ok(PyNone) ELSE Raise("ClientError"),
          calls |-> << [Payload |-> JsonText(Dict(("source" :> notification.source)
                                                  @@ ("detail-type" :> notification.type)
                                                  @@ ("detail" :> notification.details))),
                        InvocationType |-> "Event",
                        raised |-> ~invoke_ok] >>]

\* as invoke_slack_notifier, calling a second time when the first call raises
invoke_slack_notifier_RetryOnce(notification, arn, invoke_ok) ==
    LET call == [Payload |-> JsonText(Dict(("source" :> notification.source)
                                           @@ ("detail-type" :> notification.type)
                                           @@ ("detail" :> notification.details))),
                 InvocationType |-> "Event",
                 raised |-> ~invoke_ok]
    IN  IF ~arn THEN [out |-> Ok(PyNone), calls |-> << >>]
        ELSE [out |-> Ok(PyNone), calls |-> IF invoke_ok THEN << call >> ELSE << call, call >>]

\* as invoke_slack_notifier, raising when SLACK_NOTIFIER_ARN is not set
invoke_slack_notifier_RequireArn(notification, arn, invoke_ok) ==
    IF ~arn THEN [out |-> Raise("KeyError"), calls |-> << >>]
    ELSE [out   |-> Ok(PyNone),
          calls |-> << [Payload |-> JsonText(Dict(("source" :> notification.source)
                                                  @@ ("detail-type" :> notification.type)
                                                  @@ ("detail" :> notification.details))),
                        InvocationType |-> "Event",
                        raised |-> ~invoke_ok] >>]

\* invoke_slack_notifier(notification): what it returns or raises, with the
\* lambda_client.invoke calls it makes (none or one); invoke_ok is whether the
\* call returns or raises.  The except clause swallows the call's exception.
invoke_slack_notifier(notification, arn, invoke_ok) ==
    IF ~arn THEN [out |-> Ok(PyNone), calls |-> << >>]
    ELSE [out   |-> Ok(PyNone),
          calls |-> << [Payload |-> JsonText(Dict(("source" :> notification.source)
                                                  @@ ("detail-type" :> notification.type)
                                                  @@ ("detail" :> notification.details))),
                        InvocationType |-> "Event",
                        raised |-> ~invoke_ok] >>]

\* as parse_body, without the except clause: a decode error propagates
parse_body_NoFallback(body) == json_loads(body)

\* as parse_body, wrapping every body that does not decode to an object
parse_body_WrapNonObject(body) ==
    LET decoded == json_loads(body) IN
    IF ~decoded.ok \/ ~IsDict(decoded.val)
    THEN Ok(Dict("raw_message" :> body))
    ELSE decoded

\* process_message, lines 87-91: decode the body, or wrap it as a raw message
parse_body(body) ==
    LET decoded == json_loads(body) IN
    IF ~decoded.ok /\ decoded.err = "JSONDecodeError"
    THEN Ok(Dict("raw_message" :> body))
    ELSE decoded

\* as process_message, raising after an invoke call that raised
process_message_FailAfterInvoke(record, arn, invoke_ok) ==
    LET message_id == Get(record, "messageId", PyNone)
        body == Get(record, "body", PyNone)
        message_data == parse_body(body)
    IN  IF ~message_data.ok THEN [out |-> message_data, calls |-> << >>]
        ELSE
        LET extracted == extract_notification_details(message_data.val) IN
        IF ~extracted.ok THEN [out |-> extracted, calls |-> << >>]
        ELSE
        LET notification == extracted.val
            result == handle_notification(notification)
        IN  IF ~result.ok THEN [out |-> result, calls |-> << >>]
            ELSE
            LET notify == sqs_should_notify_slack(notification) IN
            IF ~notify.ok THEN [out |-> notify, calls |-> << >>]
            ELSE
            LET invoked == IF notify.val
                           THEN invoke_slack_notifier(notification, arn, invoke_ok)
                           ELSE [out |-> Ok(PyNone), calls |-> << >>]
            IN  IF ~invoked.out.ok THEN invoked
                ELSE IF invoked.calls # << >> /\ invoked.calls[1].raised
                THEN [out |-> Raise("ClientError"), calls |-> invoked.calls]
                ELSE [out   |-> Ok([messageId         |-> message_id,
                                    processed_at      |-> Str(S_now),
                                    notification_type |-> notification.type,
                                    result            |-> result.val]),
                      calls |-> invoked.calls]

\* process_message(record): Ok(result) or Raise(error), with the invoke calls made
process_message(record, arn, invoke_ok) ==
    LET message_id == Get(record, "messageId", PyNone)
        body == Get(record, "body", PyNone)
        message_data == parse_body(body)
    IN  IF ~message_data.ok THEN [out |-> message_data, calls |-> << >>]
        ELSE
        LET extracted == extract_notification_details(message_data.val) IN
        IF ~extracted.ok THEN [out |-> extracted, calls |-> << >>]
        ELSE
        LET notification == extracted.val
            result == handle_notification(notification)
        IN  IF ~result.ok THEN [out |-> result, calls |-> << >>]
            ELSE
            LET notify == sqs_should_notify_slack(notification) IN
            IF ~notify.ok THEN [out |-> notify, calls |-> << >>]
            ELSE
            LET invoked == IF notify.val
                           THEN invoke_slack_notifier(notification, arn, invoke_ok)
                           ELSE [out |-> Ok(PyNone), calls |-> << >>]
            IN  IF ~invoked.out.ok THEN invoked
                ELSE [out   |-> Ok([messageId         |-> message_id,
                                    processed_at      |-> Str(S_now),
                                    notification_type |-> notification.type,
                                    result            |-> result.val]),
                      calls |-> invoked.calls]

\* lambda_handler, lines 43-46
RecordSuccess(list, record, result) ==
    Append(list, [messageId |-> Get(record, "messageId", PyNone), result |-> result])

\* as RecordFailure, inserting at the head of the list
RecordFailure_Prepend(list, record, error) ==
    << [messageId |-> Get(record, "messageId", PyNone), error |-> error] >> \o list

\* lambda_handler, lines 50-53
RecordFailure(list, record, error) ==
    Append(list, [messageId |-> Get(record, "messageId", PyNone), error |-> error])

\* as LambdaResponse, naming the successful messages in batchItemFailures
LambdaResponse_NamesSuccessful(successful, failed) ==
    LET body == JsonText([processed           |-> Len(successful),
                          failed              |-> Len(failed),
                          successful_messages |-> successful,
                          failed_messages     |-> failed])
    IN  IF Len(failed) = 0
        THEN [statusCode |-> 200, body |-> body]
        ELSE [statusCode |-> 207, body |-> body,
              batchItemFailures |->
                  [i \in 1..Len(successful) |-> [itemIdentifier |-> successful[i].messageId]]]

\* as LambdaResponse, naming every message of the batch once one has failed
LambdaResponse_NamesWholeBatch(successful, failed) ==
    LET body == JsonText([processed           |-> Len(successful),
                          failed              |-> Len(failed),
                          successful_messages |-> successful,
                          failed_messages     |-> failed])
        all == [i \in 1..Len(successful) |-> successful[i].messageId]
               \o [i \in 1..Len(failed) |-> failed[i].messageId]
    IN  IF Len(failed) = 0
        THEN [statusCode |-> 200, body |-> body]
        ELSE [statusCode |-> 207, body |-> body,
              batchItemFailures |-> [i \in 1..Len(all) |-> [itemIdentifier |-> all[i]]]]

\* lambda_handler, lines 55-71: the response built from the two lists
LambdaResponse(successful, failed) ==
    LET body == JsonText([processed           |-> Len(successful),
                          failed              |-> Len(failed),
                          successful_messages |-> successful,
                          failed_messages     |-> failed])
    IN  IF Len(failed) = 0
        THEN [statusCode |-> 200, body |-> body]
        ELSE [statusCode |-> 207, body |-> body,
              batchItemFailures |->
                  [i \in 1..Len(failed) |-> [itemIdentifier |-> failed[i].messageId]]]

-----------------------------------------------------------------------------
(* Inputs of the queue consumer *)

\* a message in the EventBridge format
EventBridgeMessage(detail_type, detail) ==
    JsonText(Dict(("detail-type" :> detail_type) @@ ("source" :> Str(S_app))
                  @@ ("detail" :> detail)))

\* the message the NotificationRule of sqs_stack.py puts on the queue
RuleTargetMessage(detail) ==
    JsonText(Dict(("timestamp" :> Str(S_now)) @@ ("source" :> Str(S_custom_notifications))
                  @@ ("detail" :> detail)))

\* a message in a custom format
CustomMessage(type, priority) ==
    JsonText(Dict(("type" :> type) @@ ("priority" :> priority) @@ ("user_id" :> Num(7))))

Bodies ==
    { EventBridgeMessage(Str(S_Info), Dict("message" :> Str(S_hello))),
      EventBridgeMessage(Str(S_Info), Dict("priority" :> Str(S_HIGH))),
      EventBridgeMessage(Str(S_PaymentFailed), EmptyDict),
      EventBridgeMessage(Str(S_Info), Dict("priority" :> PyNone)),
      EventBridgeMessage(Str(S_Error), PyNone),
      RuleTargetMessage(Dict("priority" :> Str(S_normal))),
      CustomMessage(Str(S_UserRegistered), Str(S_urgent)),
      Str(S_hello),
      Str(S_42) }

\* an SQS record; a record may lack its body
QueueRecords(id) ==
    { ("messageId" :> id) @@ ("body" :> b) : b \in Bodies } \cup { ("messageId" :> id) }

\* the bodies of a single record: those of Bodies, the JSON texts that decode
\* to something other than an object, priorities that are not strings, and
\* the types handle_notification tells apart
RecordBodies ==
    Bodies
    \cup { Str(S_null), JsonText(Str(S_hello)), JsonText(List(<< >>)),
           JsonText(List(<< Num(1) >>)), JsonText(Bool(TRUE)), JsonText(Bool(FALSE)),
           JsonText(Num(0)), JsonText(EmptyDict) }
    \cup { EventBridgeMessage(Str(S_Info), Dict("priority" :> p)) :
               p \in { Num(1), Num(0), Bool(TRUE), List(<< >>), Str(S_high) } }
    \cup { CustomMessage(Str(S_Info), p) : p \in { PyNone, Num(1), Str(S_low) } }
    \cup { EventBridgeMessage(Str(ty), EmptyDict) :
               ty \in { S_UserRegistered, S_OrderCreated, S_PaymentFailed, S_PaymentFailure,
                        S_Error, S_SecurityAlert, S_Info,
                        <<"U", "S", "E", "R", " ", "R", "E", "G", "I", "S", "T", "E", "R", "E", "D">>,
                        <<"R", "e", "g", "i", "s", "t", "e", "r", "e", "d", " ",
                          "U", "s", "e", "r", " ", "O", "r", "d", "e", "r">>,
                        <<"U", "s", "e", "r", " ", "O", "r", "d", "e", "r">>,
                        <<"O", "r", "d", "e", "r", " ", "E", "r", "r", "o", "r">>,
                        <<"S", "y", "s", "t", "e", "m", " ", "F", "a", "i", "l", "u", "r", "e">> } }

MessageId(record) == Get(record, "messageId", PyNone)

Ids(seq) == { MessageId(seq[i]) : i \in 1..Len(seq) }

-----------------------------------------------------------------------------
(* The queue and the consumer's lambda_handler *)

\* SqsEventSource(batch_size=10)
batch_size == 10

Min(a, b) == IF a < b THEN a ELSE b

\* report_batch_item_failures=True: the records of the batch that become
\* visible again are those a batchItemFailures entry names
Redelivered(batch, resp) ==
    LET named == IF "batchItemFailures" \in DOMAIN resp
                 THEN { resp.batchItemFailures[i].itemIdentifier :
                            i \in 1..Len(resp.batchItemFailures) }
                 ELSE {}
    IN  SelectSeq(batch, LAMBDA r : MessageId(r) \in named)

NoResponse == << >>

ConsumerInit ==
    /\ \E n \in 1..MaxBatch :
          queue \in { q \in [1..n -> UNION { QueueRecords(i) : i \in 1..n }] :
                          \A i \in 1..n : q[i]["messageId"] = i }
    /\ Records = << >>
    /\ idx = 1
    /\ successful_messages = << >>
    /\ failed_messages = << >>
    /\ response = NoResponse
    /\ invocations = << >>
    /\ pc = "idle"
    /\ deliveries = 0
    /\ succeeded_ever = {}
    /\ prev_failed = {}
    /\ SLACK_NOTIFIER_ARN \in BOOLEAN

\* SQS hands a batch to lambda_handler (lines 34-37)
Receive ==
    /\ pc = "idle"
    /\ Len(queue) > 0
    /\ deliveries < MaxDeliveries
    /\ Records' = SubSeq(queue, 1, Min(Len(queue), batch_size))
    /\ queue' = SubSeq(queue, Min(Len(queue), batch_size) + 1, Len(queue))
    /\ idx' = 1
    /\ successful_messages' = << >>
    /\ failed_messages' = << >>
    /\ response' = NoResponse
    /\ invocations' = << >>
    /\ pc' = "loop"
    /\ deliveries' = deliveries + 1
    /\ UNCHANGED <<succeeded_ever, prev_failed, SLACK_NOTIFIER_ARN>>

\* as ProcessRecord, with the first failure ending the loop
ProcessRecord_AbortOnFailure ==
    /\ pc = "loop"
    /\ idx <= Len(Records)
    /\ \E invoke_ok \in BOOLEAN :
          LET record == Records[idx]
              r == process_message(record, SLACK_NOTIFIER_ARN, invoke_ok)
          IN  /\ invocations' = invocations \o
                     [i \in 1..Len(r.calls) |-> [messageId |-> MessageId(record),
                                                  call |-> r.calls[i]]]
              /\ IF r.out.ok
                 THEN /\ successful_messages' = RecordSuccess(successful_messages, record, r.out.val)
                      /\ UNCHANGED failed_messages
                      /\ idx' = idx + 1
                 ELSE /\ failed_messages' = RecordFailure(failed_messages, record, r.out.err)
                      /\ UNCHANGED successful_messages
                      /\ idx' = Len(Records) + 1
    /\ UNCHANGED <<queue, Records, response, pc, deliveries, succeeded_ever,
                   prev_failed, SLACK_NOTIFIER_ARN>>

\* as ProcessRecord, with every record after a failed one marked failed too
ProcessRecord_FailAfterFailure ==
    /\ pc = "loop"
    /\ idx <= Len(Records)
    /\ \E invoke_ok \in BOOLEAN :
          LET record == Records[idx]
              r == process_message(record, SLACK_NOTIFIER_ARN, invoke_ok)
          IN  /\ invocations' = invocations \o
                     [i \in 1..Len(r.calls) |-> [messageId |-> MessageId(record),
                                                  call |-> r.calls[i]]]
              /\ IF r.out.ok /\ Len(failed_messages) = 0
                 THEN /\ successful_messages' = RecordSuccess(successful_messages, record, r.out.val)
                      /\ UNCHANGED failed_messages
                 ELSE /\ failed_messages' =
                            RecordFailure(failed_messages, record,
                                          IF r.out.ok THEN "BatchFailed" ELSE r.out.err)
                      /\ UNCHANGED successful_messages
    /\ idx' = idx + 1
    /\ UNCHANGED <<queue, Records, response, pc, deliveries, succeeded_ever,
                   prev_failed, SLACK_NOTIFIER_ARN>>

\* one iteration of the for loop (lines 39-53)
ProcessRecord ==
    /\ pc = "loop"
    /\ idx <= Len(Records)
    /\ \E invoke_ok \in BOOLEAN :
          LET record == Records[idx]
              r == process_message(record, SLACK_NOTIFIER_ARN, invoke_ok)
          IN  /\ invocations' = invocations \o
                     [i \in 1..Len(r.calls) |-> [messageId |-> MessageId(record),
                                                  call |-> r.calls[i]]]
              /\ IF r.out.ok
                 THEN /\ successful_messages' = RecordSuccess(successful_messages, record, r.out.val)
                      /\ UNCHANGED failed_messages
                 ELSE /\ failed_messages' = RecordFailure(failed_messages, record, r.out.err)
                      /\ UNCHANGED successful_messages
    /\ idx' = idx + 1
    /\ UNCHANGED <<queue, Records, response, pc, deliveries, succeeded_ever,
                   prev_failed, SLACK_NOTIFIER_ARN>>

\* the loop is over: build and return the response (lines 55-75)
Return ==
    /\ pc = "loop"
    /\ idx > Len(Records)
    /\ response' = LambdaResponse(successful_messages, failed_messages)
    /\ pc' = "returned"
    /\ UNCHANGED <<queue, Records, idx, successful_messages, failed_messages,
                   invocations, deliveries, succeeded_ever, prev_failed,
                   SLACK_NOTIFIER_ARN>>

\* SQS acts on the response: it deletes the records not named in
\* batchItemFailures and makes the named ones visible again
Redeliver ==
    /\ pc = "returned"
    /\ queue' = Redelivered(Records, response) \o queue
    /\ succeeded_ever' = succeeded_ever \cup Ids(response.body.enc.successful_messages)
    /\ prev_failed' = Ids(response.body.enc.failed_messages)
    /\ pc' = "idle"
    /\ UNCHANGED <<Records, idx, successful_messages, failed_messages, response,
                   invocations, deliveries, SLACK_NOTIFIER_ARN>>

ConsumerIdle ==
    /\ queue = << >>
    /\ Records = << >>
    /\ idx = 1
    /\ successful_messages = << >>
    /\ failed_messages = << >>
    /\ response = NoResponse
    /\ invocations = << >>
    /\ pc = "idle"
    /\ deliveries = 0
    /\ succeeded_ever = {}
    /\ prev_failed = {}

-----------------------------------------------------------------------------
(* lambda_functions/event_processor/handler.py *)

\* as process_event, without the branch of the type Payment Failed
process_event_NoPaymentBranch(detail, source, detail_type) ==
    LET processing_result ==
            ("processed_at" :> Str(S_now)) @@ ("source" :> source) @@ ("type" :> detail_type)
    IN  IF detail_type = Str(S_UserRegistered)
        THEN IF ~IsDict(detail) THEN Raise("AttributeError")
             ELSE Ok(processing_result @@ ("action" :> "send_welcome_email")
                     @@ ("user" :> Get(detail.d, "userId", PyNone)))
        ELSE IF detail_type = Str(S_OrderCreated)
        THEN IF ~IsDict(detail) THEN Raise("AttributeError")
             ELSE Ok(processing_result @@ ("action" :> "process_order")
                     @@ ("order_id" :> Get(detail.d, "orderId", PyNone)))
        ELSE Ok(processing_result @@ ("action" :> "log_event"))

process_event(detail, source, detail_type) ==
    LET processing_result ==
            ("processed_at" :> Str(S_now)) @@ ("source" :> source) @@ ("type" :> detail_type)
    IN  IF detail_type = Str(S_UserRegistered)
        THEN IF ~IsDict(detail) THEN Raise("AttributeError")
             ELSE Ok(processing_result @@ ("action" :> "send_welcome_email")
                     @@ ("user" :> Get(detail.d, "userId", PyNone)))
        ELSE IF detail_type = Str(S_OrderCreated)
        THEN IF ~IsDict(detail) THEN Raise("AttributeError")
             ELSE Ok(processing_result @@ ("action" :> "process_order")
                     @@ ("order_id" :> Get(detail.d, "orderId", PyNone)))
        ELSE IF detail_type = Str(S_PaymentFailed)
        THEN IF ~IsDict(detail) THEN Raise("AttributeError")
             ELSE Ok(processing_result @@ ("action" :> "notify_support")
                     @@ ("amount" :> Get(detail.d, "amount", PyNone)))
        ELSE Ok(processing_result @@ ("action" :> "log_event"))

notify_types == { Str(S_Error), Str(S_Failure), Str(S_PaymentFailed), Str(S_SecurityAlert) }

\* as ep_should_notify_slack, matching the type as the queue consumer does
ep_should_notify_slack_TypeKeywords(detail, detail_type) ==
    IF ~IsDict(detail) THEN Raise("AttributeError")
    ELSE LET priority == Get(detail.d, "priority", Str(S_normal)) IN
         IF priority \in { Str(S_high), Str(S_critical), Str(S_urgent) }
         THEN Ok(TRUE)
         ELSE IF ~IsStr(detail_type) THEN Raise("AttributeError")
         ELSE Ok(\E word \in {S_error, S_failure, S_alert} :
                     Contains(Lower(detail_type.s), word))

ep_should_notify_slack(detail, detail_type) ==
    IF ~IsDict(detail) THEN Raise("AttributeError")      \* detail.get
    ELSE LET priority == Get(detail.d, "priority", Str(S_normal)) IN
         IF priority \in { Str(S_high), Str(S_critical), Str(S_urgent) }
         THEN Ok(TRUE)
         ELSE Ok(detail_type \in notify_types)

\* The lambda_client.invoke calls notify_slack makes (none or one); it never raises
notify_slack(event, arn, invoke_ok) ==
    IF ~arn THEN << >>
    ELSE << [Payload |-> JsonText(event), InvocationType |-> "Event",
             raised |-> ~invoke_ok] >>

send_error_notification(event, error, arn, invoke_ok) ==
    LET error_event ==
            Dict(("source" :> Str(S_custom_notifications))
                 @@ ("detail-type" :> Str(S_Error))
                 @@ ("detail" :> Dict(("message" :> [t |-> "str", failed |-> error])
                                      @@ ("priority" :> Str(S_high))
                                      @@ ("error" :> [t |-> "str", exc |-> error])
                                      @@ ("original_event" :>
                                              Get(event.d, "detail-type", Str(S_unknown)))
                                      @@ ("timestamp" :> Str(S_now)))))
    IN  notify_slack(error_event, arn, invoke_ok)

-----------------------------------------------------------------------------
(* Inputs of the event processor *)

EventTypes ==
    { Str(S_Error), Str(S_Failure), Str(S_PaymentFailed), Str(S_SecurityAlert),
      Str(S_error), Str(S_DiskAlert), Str(S_UserRegistered), Str(S_OrderCreated),
      Str(S_Info) }

EventPriorities ==
    { Str(S_normal), Str(S_high), Str(S_critical), Str(S_urgent), Str(S_HIGH),
      Str(S_Critical), Str(S_URGENT), Str(S_low), PyNone, Num(1) }

EventDetails ==
    { Dict(("message" :> Str(S_hello)) @@ ("priority" :> p)) : p \in EventPriorities }
    \cup { Dict("message" :> Str(S_hello)), EmptyDict, PyNone }

Events ==
    { Dict(("source" :> Str(S_app)) @@ ("detail-type" :> ty) @@ ("detail" :> d)) :
          ty \in EventTypes, d \in EventDetails }
    \cup { Dict(("source" :> Str(S_app)) @@ ("detail" :> d)) : d \in EventDetails }
    \cup { Dict("detail-type" :> ty) : ty \in EventTypes }

-----------------------------------------------------------------------------
(* The event processor's lambda_handler *)

ProcessorInit ==
    /\ ep_event \in Events
    /\ ep_pc = "start"
    /\ ep_result = Ok(<< >>)
    /\ ep_forward = FALSE
    /\ ep_invocations = << >>
    /\ ep_response = NoResponse
    /\ SLACK_NOTIFIER_ARN \in BOOLEAN

ep_detail == Get(ep_event.d, "detail", EmptyDict)
ep_source == Get(ep_event.d, "source", Str(S_unknown))
ep_detail_type == Get(ep_event.d, "detail-type", Str(S_unknown))

\* lines 25-35: process the event and decide whether to notify
EpClassify ==
    /\ ep_pc = "start"
    /\ LET result == process_event(ep_detail, ep_source, ep_detail_type)
           notify == ep_should_notify_slack(ep_detail, ep_detail_type)
       IN  IF ~result.ok
           THEN /\ ep_result' = result
                /\ ep_pc' = "except"
                /\ UNCHANGED ep_forward
           ELSE IF ~notify.ok
           THEN /\ ep_result' = notify
                /\ ep_pc' = "except"
                /\ UNCHANGED ep_forward
           ELSE /\ ep_result' = result
                /\ ep_forward' = notify.val
                /\ ep_pc' = IF notify.val THEN "notify" ELSE "respond"
    /\ UNCHANGED <<ep_event, ep_invocations, ep_response, SLACK_NOTIFIER_ARN>>

\* as EpNotifySlack, with notify_slack letting the exception of the call through
EpNotifySlack_Reraise ==
    /\ ep_pc = "notify"
    /\ \E invoke_ok \in BOOLEAN :
          LET calls == notify_slack(ep_event, SLACK_NOTIFIER_ARN, invoke_ok) IN
          /\ ep_invocations' = ep_invocations \o calls
          /\ IF calls # << >> /\ calls[1].raised
             THEN ep_result' = Raise("ClientError") /\ ep_pc' = "except"
             ELSE UNCHANGED ep_result /\ ep_pc' = "respond"
    /\ UNCHANGED <<ep_event, ep_forward, ep_response, SLACK_NOTIFIER_ARN>>

\* line 36: notify_slack(event)
EpNotifySlack ==
    /\ ep_pc = "notify"
    /\ \E invoke_ok \in BOOLEAN :
          ep_invocations' = ep_invocations \o notify_slack(ep_event, SLACK_NOTIFIER_ARN, invoke_ok)
    /\ ep_pc' = "respond"
    /\ UNCHANGED <<ep_event, ep_result, ep_forward, ep_response, SLACK_NOTIFIER_ARN>>

\* lines 38-46
EpReturnOk ==
    /\ ep_pc = "respond"
    /\ ep_response' = [statusCode |-> 200,
                       body |-> JsonText([message |-> "Event processed successfully",
                                          source  |-> ep_source,
                                          type    |-> ep_detail_type,
                                          result  |-> ep_result.val])]
    /\ ep_pc' = "done"
    /\ UNCHANGED <<ep_event, ep_result, ep_forward, ep_invocations, SLACK_NOTIFIER_ARN>>

\* lines 48-52: the except branch sends the error to Slack
EpSendError ==
    /\ ep_pc = "except"
    /\ \E invoke_ok \in BOOLEAN :
          ep_invocations' = ep_invocations \o
              send_error_notification(ep_event, ep_result.err, SLACK_NOTIFIER_ARN, invoke_ok)
    /\ ep_pc' = "failed"
    /\ UNCHANGED <<ep_event, ep_result, ep_forward, ep_response, SLACK_NOTIFIER_ARN>>

\* lines 54-57
EpReturnError ==
    /\ ep_pc = "failed"
    /\ ep_response' = [statusCode |-> 500, body |-> JsonText([error |-> ep_result.err])]
    /\ ep_pc' = "done"
    /\ UNCHANGED <<ep_event, ep_result, ep_forward, ep_invocations, SLACK_NOTIFIER_ARN>>


-----------------------------------------------------------------------------
(* lambda_functions/slack_notifier/handler.py *)

S_message == <<"m", "e", "s", "s", "a", "g", "e">>
S_priority == <<"p", "r", "i", "o", "r", "i", "t", "y">>
S_timestamp == <<"t", "i", "m", "e", "s", "t", "a", "m", "p">>
S_Source == <<"S", "o", "u", "r", "c", "e">>
S_Priority == <<"P", "r", "i", "o", "r", "i", "t", "y">>
S_Timestamp == <<"T", "i", "m", "e", "s", "t", "a", "m", "p">>
S_failed == <<"f", "a", "i", "l", "e", "d">>
S_warning == <<"w", "a", "r", "n", "i", "n", "g">>
S_success == <<"s", "u", "c", "c", "e", "s", "s">>
S_completed == <<"c", "o", "m", "p", "l", "e", "t", "e", "d">>
S_Notification == <<"N", "o", "t", "i", "f", "i", "c", "a", "t", "i", "o", "n">>
S_NoMessageProvided == <<"N", "o", " ", "m", "e", "s", "s", "a", "g", "e", " ", "p", "r", "o", "v", "i", "d", "e", "d">>
S_NotificationBot == <<"N", "o", "t", "i", "f", "i", "c", "a", "t", "i", "o", "n", " ", "B", "o", "t">>
S_None == <<"N", "o", "n", "e">>
S_True == <<"T", "r", "u", "e">>
S_False == <<"F", "a", "l", "s", "e">>

\* strings that occur only in the notifier's inputs
S_Success == <<"S", "u", "c", "c", "e", "s", "s">>
S_FailedSuccess == <<"F", "a", "i", "l", "e", "d", " ", "S", "u", "c", "c", "e", "s", "s">>
S_Warning == <<"W", "a", "r", "n", "i", "n", "g">>
S_JobCompleted == <<"J", "o", "b", " ", "C", "o", "m", "p", "l", "e", "t", "e", "d">>
S_region == <<"r", "e", "g", "i", "o", "n">>
S_Region == <<"R", "e", "g", "i", "o", "n">>
S_us_east_1 == <<"u", "s", "-", "e", "a", "s", "t", "-", "1">>
S_user_id == <<"u", "s", "e", "r", "_", "i", "d">>
S_secret == <<"_", "s", "e", "c", "r", "e", "t">>
S_x == <<"x">>
S_CRITICAL == <<"C", "R", "I", "T", "I", "C", "A", "L">>
S_Urgent == <<"U", "r", "g", "e", "n", "t">>
S_High == <<"H", "i", "g", "h">>

IsLetter(c) == \E i \in 1..26 : UpperCase[i] = c \/ LowerCase[i] = c

UpperChar(c) ==
    IF \E i \in 1..26 : LowerCase[i] = c
    THEN UpperCase[CHOOSE i \in 1..26 : LowerCase[i] = c]
    ELSE c

\* str.upper()
Upper(s) == [i \in 1..Len(s) |-> UpperChar(s[i])]

\* str.title(): a letter after a letter is lowercased, any other letter uppercased
Title(s) ==
    [i \in 1..Len(s) |->
        IF i > 1 /\ IsLetter(s[i - 1]) THEN LowerChar(s[i]) ELSE UpperChar(s[i])]

\* key.replace("_", " ")
ReplaceUnderscores(s) == [i \in 1..Len(s) |-> IF s[i] = "_" THEN " " ELSE s[i]]

\* key.startswith("_")
StartsWithUnderscore(s) == Len(s) > 0 /\ s[1] = "_"

RECURSIVE NatToStr(_)
NatToStr(n) ==
    IF n < 10 THEN << <<"0", "1", "2", "3", "4", "5", "6", "7", "8", "9">>[n + 1] >>
    ELSE NatToStr(n \div 10) \o NatToStr(n % 10)

\* str(value) for a scalar value
PyStr(value) ==
    CASE value.t = "str"  -> value.s
      [] value.t = "num"  -> IF value.n < 0 THEN <<"-">> \o NatToStr(-value.n)
                             ELSE NatToStr(value.n)
      [] value.t = "bool" -> IF value.b THEN S_True ELSE S_False
      [] value.t = "null" -> S_None

\* The detail mapping of the notifier keeps its insertion order: a sequence of
\* items [k |-> key, v |-> value] with distinct keys.
OrderedDict(items) == [t |-> "dict", items |-> items]

\* detail.get(key, default)
ItemGet(items, key, default) ==
    IF \E i \in 1..Len(items) : items[i].k = key
    THEN items[CHOOSE i \in 1..Len(items) : items[i].k = key].v
    ELSE default

\* as get_message_color, with the type rules ahead of the priority rules
get_message_color_TypeFirst(detail, detail_type) ==
    IF ~IsDict(detail) THEN Raise("AttributeError")
    ELSE LET p == ItemGet(detail.items, S_priority, Str(S_normal)) IN
         IF ~IsStr(p) \/ ~IsStr(detail_type) THEN Raise("AttributeError")
         ELSE LET priority == Lower(p.s)
                  type == Lower(detail_type.s)
              IN  IF \E word \in {S_error, S_failure, S_failed} : Contains(type, word)
                  THEN Ok("danger")
                  ELSE IF \E word \in {S_warning, S_alert} : Contains(type, word)
                  THEN Ok("warning")
                  ELSE IF \E word \in {S_success, S_completed} : Contains(type, word)
                  THEN Ok("good")
                  ELSE IF priority \in {S_critical, S_urgent} THEN Ok("danger")
                  ELSE IF priority = S_high THEN Ok("warning")
                  ELSE Ok("#36a64f")

\* as get_message_color, with the success rule ahead of the other type rules
get_message_color_SuccessFirst(detail, detail_type) ==
    IF ~IsDict(detail) THEN Raise("AttributeError")
    ELSE LET p == ItemGet(detail.items, S_priority, Str(S_normal)) IN
         IF ~IsStr(p) THEN Raise("AttributeError")
         ELSE LET priority == Lower(p.s) IN
              IF priority \in {S_critical, S_urgent} THEN Ok("danger")
              ELSE IF priority = S_high THEN Ok("warning")
              ELSE IF ~IsStr(detail_type) THEN Raise("AttributeError")
              ELSE LET type == Lower(detail_type.s) IN
                   IF \E word \in {S_success, S_completed} : Contains(type, word)
                   THEN Ok("good")
                   ELSE IF \E word \in {S_error, S_failure, S_failed} : Contains(type, word)
                   THEN Ok("danger")
                   ELSE IF \E word \in {S_warning, S_alert} : Contains(type, word)
                   THEN Ok("warning")
                   ELSE Ok("#36a64f")

get_message_color(detail, detail_type) ==
    IF ~IsDict(detail) THEN Raise("AttributeError")            \* detail.get
    ELSE LET p == ItemGet(detail.items, S_priority, Str(S_normal)) IN
         IF ~IsStr(p) THEN Raise("AttributeError")             \* .lower()
         ELSE LET priority == Lower(p.s) IN
              IF priority \in {S_critical, S_urgent} THEN Ok("danger")
              ELSE IF priority = S_high THEN Ok("warning")
              ELSE IF ~IsStr(detail_type) THEN Raise("AttributeError")
              ELSE LET type == Lower(detail_type.s) IN
                   IF \E word \in {S_error, S_failure, S_failed} : Contains(type, word)
                   THEN Ok("danger")
                   ELSE IF \E word \in {S_warning, S_alert} : Contains(type, word)
                   THEN Ok("warning")
                   ELSE IF \E word \in {S_success, S_completed} : Contains(type, word)
                   THEN Ok("good")
                   ELSE Ok("#36a64f")

\* as IsShort, with <= for <
IsShort_Inclusive(field_value) == Len(field_value) <= 40

\* build_fields, line 175: len(field_value) < 40
IsShort(field_value) == Len(field_value) < 40

\* build_fields, line 167
FieldName(key) == Title(ReplaceUnderscores(key))

\* as excluded_keys, without priority
excluded_keys_NoPriority == {S_message, S_timestamp}

excluded_keys == {S_message, S_priority, S_timestamp}

build_fields(detail, source) ==
    IF ~IsDict(detail) THEN Raise("AttributeError")
    ELSE
    LET priority == ItemGet(detail.items, S_priority, PyNone)
        timestamp == ItemGet(detail.items, S_timestamp, PyNone)
        custom == SelectSeq(detail.items,
                            LAMBDA e : e.k \notin excluded_keys /\ ~StartsWithUnderscore(e.k))
    IN  IF Truthy(priority) /\ ~IsStr(priority) THEN Raise("AttributeError")   \* .upper()
        ELSE Ok(<< [title |-> S_Source, value |-> source, short |-> TRUE] >>
                \o (IF Truthy(priority)
                    THEN << [title |-> S_Priority, value |-> Str(Upper(priority.s)),
                             short |-> TRUE] >>
                    ELSE << >>)
                \o (IF Truthy(timestamp)
                    THEN << [title |-> S_Timestamp, value |-> timestamp, short |-> TRUE] >>
                    ELSE << >>)
                \o [i \in 1..Len(custom) |->
                       [title |-> FieldName(custom[i].k),
                        value |-> Str(PyStr(custom[i].v)),
                        short |-> IsShort(PyStr(custom[i].v))]])

\* as build_slack_message, with event.get("detail") and no default
build_slack_message_NoDetailDefault(event) ==
    LET detail == Get(event.d, "detail", PyNone)
        source == Get(event.d, "source", Str(S_unknown))
        detail_type == Get(event.d, "detail-type", Str(S_Notification))
        color == get_message_color(detail, detail_type)
    IN  IF ~color.ok THEN color
        ELSE
        LET message_text == ItemGet(detail.items, S_message, Str(S_NoMessageProvided))
            fields == build_fields(detail, source)
        IN  IF ~fields.ok THEN fields
            ELSE Ok([text        |-> Str(<<"*">> \o PyStr(detail_type) \o <<"*">>),
                     attachments |-> << [color  |-> color.val,
                                         text   |-> message_text,
                                         fields |-> fields.val,
                                         footer |-> "Notification Service",
                                         ts     |-> Str(S_now)] >>,
                     username    |-> Str(S_NotificationBot)])

build_slack_message(event) ==
    LET detail == Get(event.d, "detail", OrderedDict(<< >>))
        source == Get(event.d, "source", Str(S_unknown))
        detail_type == Get(event.d, "detail-type", Str(S_Notification))
        color == get_message_color(detail, detail_type)
    IN  IF ~color.ok THEN color
        ELSE
        LET message_text == ItemGet(detail.items, S_message, Str(S_NoMessageProvided))
            fields == build_fields(detail, source)
        IN  IF ~fields.ok THEN fields
            ELSE Ok([text        |-> Str(<<"*">> \o PyStr(detail_type) \o <<"*">>),
                     attachments |-> << [color  |-> color.val,
                                         text   |-> message_text,
                                         fields |-> fields.val,
                                         footer |-> "Notification Service",
                                         ts     |-> Str(S_now)] >>,
                     username    |-> Str(S_NotificationBot)])

\* response.data.decode('utf-8') of the webhook's answer
ReplyData(reply) == IF reply = 200 THEN "ok" ELSE "invalid_payload"

\* as send_to_slack, without the test of response.status
send_to_slack_NoStatusCheck(webhook_url, message, reply) ==
    LET request == [method |-> "POST", url |-> webhook_url, body |-> JsonText(message),
                    headers |-> [ContentType |-> "application/json"]]
    IN  IF reply = 0
        THEN [out |-> Raise([transport |-> "MaxRetryError"]), requests |-> << request >>]
        ELSE [out |-> Ok([status |-> reply, response |-> ReplyData(reply)]),
              requests |-> << request >>]

\* as send_to_slack, posting a second time when the first answer is not 200
send_to_slack_RetryOnFailure(webhook_url, message, reply) ==
    LET request == [method |-> "POST", url |-> webhook_url, body |-> JsonText(message),
                    headers |-> [ContentType |-> "application/json"]]
    IN  IF reply = 0
        THEN [out |-> Raise([transport |-> "MaxRetryError"]), requests |-> << request >>]
        ELSE IF reply # 200
        THEN [out |-> Raise([status |-> reply, data |-> ReplyData(reply)]),
              requests |-> << request, request >>]
        ELSE [out |-> Ok([status |-> reply, response |-> ReplyData(reply)]),
              requests |-> << request >>]

\* send_to_slack(webhook_url, message): what it returns or raises, with the
\* http.request calls it makes; reply is the endpoint's status, or 0 for a
\* transport fault raised by http.request
send_to_slack(webhook_url, message, reply) ==
    LET request == [method |-> "POST", url |-> webhook_url, body |-> JsonText(message),
                    headers |-> [ContentType |-> "application/json"]]
    IN  IF reply = 0
        THEN [out |-> Raise([transport |-> "MaxRetryError"]), requests |-> << request >>]
        ELSE IF reply # 200
        THEN [out |-> Raise([status |-> reply, data |-> ReplyData(reply)]),
              requests |-> << request >>]
        ELSE [out |-> Ok([status |-> reply, response |-> ReplyData(reply)]),
              requests |-> << request >>]

-----------------------------------------------------------------------------
(* Inputs of the slack notifier *)

S_hook == <<"h", "t", "t", "p", "s", ":", "/", "/", "h", "o", "o", "k", "s">>

\* a text of n characters
TextOfLength(n) == [i \in 1..n |-> "x"]

Item(key, value) == [k |-> key, v |-> value]

NotifierTypes ==
    { Str(S_Error), Str(S_PaymentFailed), Str(S_SecurityAlert), Str(S_Warning),
      Str(S_Success), Str(S_JobCompleted), Str(S_FailedSuccess), Str(S_Info) }

NotifierPriorities ==
    { Str(S_normal), Str(S_low), Str(S_high), Str(S_High), Str(S_HIGH),
      Str(S_critical), Str(S_Critical), Str(S_CRITICAL), Str(S_urgent),
      Str(S_Urgent), Str(S_URGENT), Str(<< >>), PyNone, Num(1) }

\* the entries a detail mapping is made of
DetailItems ==
    { Item(S_message, Str(S_x)),
      Item(S_region, Str(S_us_east_1)),
      Item(S_priority, Str(S_high)),
      Item(S_timestamp, Str(S_now)),
      Item(S_secret, Str(S_x)),
      Item(S_user_id, Num(7)),
      Item(S_Region, Str(S_x)),
      Item(S_low, Str(TextOfLength(39))),
      Item(S_app, Str(TextOfLength(40))) }

\* the detail mappings of at most MaxDetailKeys entries, in every insertion order
DetailMappings ==
    UNION { { q \in [1..n -> DetailItems] : \A i, j \in 1..n : i # j => q[i].k # q[j].k } :
            n \in 0..MaxDetailKeys }

\* the events in which any of source, detail-type, detail, detail.message,
\* detail.priority and detail.timestamp is left out
OptionalFieldEvents ==
    { Dict([k \in keys |->
               CASE k = "source"      -> Str(S_app)
                 [] k = "detail-type" -> Str(S_Info)
                 [] k = "detail"      ->
                        OrderedDict(SelectSeq(<< Item(S_message, Str(S_hello)),
                                                 Item(S_priority, Str(S_normal)),
                                                 Item(S_timestamp, Str(S_now)) >>,
                                              LAMBDA e : e.k \in detail_keys))]) :
          keys \in SUBSET {"source", "detail-type", "detail"},
          detail_keys \in SUBSET {S_message, S_priority, S_timestamp} }

NotifierEvents ==
    OptionalFieldEvents \cup
    { Dict(("source" :> Str(S_app)) @@ ("detail-type" :> ty)
           @@ ("detail" :> OrderedDict(<< Item(S_message, Str(S_hello)), Item(S_priority, p) >>))) :
          ty \in NotifierTypes, p \in NotifierPriorities }
    \cup { Dict(("source" :> Str(S_app)) @@ ("detail-type" :> ty)
                @@ ("detail" :> OrderedDict(<< Item(S_message, Str(S_hello)) >>))) :
               ty \in NotifierTypes }
    \cup { Dict(("source" :> Str(S_app)) @@ ("detail-type" :> Str(S_Info))
                @@ ("detail" :> OrderedDict(q))) : q \in DetailMappings }
    \cup { EmptyDict,
           Dict("source" :> Str(S_app)),
           Dict("detail-type" :> Str(S_Error)),
           Dict("detail" :> OrderedDict(<< >>)),
           Dict("detail" :> OrderedDict(<< Item(S_priority, Str(S_Critical)) >>)),
           Dict(("source" :> Str(S_app)) @@ ("detail" :> PyNone)) }

\* what the webhook answers: an HTTP status, or 0 for a transport fault
Replies == {200, 204, 400, 500, 0}

-----------------------------------------------------------------------------
(* The slack notifier's lambda_handler *)

NotifierInit ==
    /\ SLACK_WEBHOOK_URL \in { PyNone, Str(<< >>), Str(S_hook) }
    /\ sn_event \in NotifierEvents
    /\ sn_pc = "start"
    /\ sn_message = << >>
    /\ sn_result = Ok(<< >>)
    /\ sn_requests = << >>
    /\ sn_response = NoResponse

\* as SnCheckConfig, without the test of the webhook URL
SnCheckConfig_NoGuard ==
    /\ sn_pc = "start"
    /\ sn_pc' = "build"
    /\ UNCHANGED <<SLACK_WEBHOOK_URL, sn_event, sn_message, sn_result, sn_requests,
                   sn_response>>

\* lines 33-42: without a webhook URL the handler returns at once
SnCheckConfig ==
    /\ sn_pc = "start"
    /\ IF ~Truthy(SLACK_WEBHOOK_URL)
       THEN /\ sn_response' = [statusCode |-> 500,
                               body |-> JsonText([error |-> "Slack webhook URL not configured"])]
            /\ sn_pc' = "done"
       ELSE /\ sn_pc' = "build"
            /\ UNCHANGED sn_response
    /\ UNCHANGED <<SLACK_WEBHOOK_URL, sn_event, sn_message, sn_result, sn_requests>>

\* line 46
SnBuildMessage ==
    /\ sn_pc = "build"
    /\ LET slack_message == build_slack_message(sn_event) IN
       IF slack_message.ok
       THEN /\ sn_message' = slack_message.val
            /\ sn_pc' = "send"
            /\ UNCHANGED sn_result
       ELSE /\ sn_result' = slack_message
            /\ sn_pc' = "except"
            /\ UNCHANGED sn_message
    /\ UNCHANGED <<SLACK_WEBHOOK_URL, sn_event, sn_requests, sn_response>>

\* line 49
SnSendToSlack ==
    /\ sn_pc = "send"
    /\ \E reply \in Replies :
          LET sent == send_to_slack(SLACK_WEBHOOK_URL, sn_message, reply) IN
          /\ sn_requests' = sn_requests \o
                 [i \in 1..Len(sent.requests) |-> [request |-> sent.requests[i], reply |-> reply]]
          /\ sn_result' = sent.out
          /\ sn_pc' = IF sent.out.ok THEN "ok" ELSE "except"
    /\ UNCHANGED <<SLACK_WEBHOOK_URL, sn_event, sn_message, sn_response>>

\* lines 51-59
SnReturnOk ==
    /\ sn_pc = "ok"
    /\ sn_response' = [statusCode |-> 200,
                       body |-> JsonText([message |-> "Notification sent to Slack",
                                          detail_type |->
                                              Get(sn_event.d, "detail-type", Str(S_unknown))])]
    /\ sn_pc' = "done"
    /\ UNCHANGED <<SLACK_WEBHOOK_URL, sn_event, sn_message, sn_result, sn_requests>>

\* lines 61-66
SnReturnError ==
    /\ sn_pc = "except"
    /\ sn_response' = [statusCode |-> 500, body |-> JsonText([error |-> sn_result.err])]
    /\ sn_pc' = "done"
    /\ UNCHANGED <<SLACK_WEBHOOK_URL, sn_event, sn_message, sn_result, sn_requests>>

-----------------------------------------------------------------------------
(* extract_notification_details applied to one decoded message *)

Absent == [t |-> "absent"]

\* a mapping with the key, unless the value is Absent
Opt(key, value) == IF value = Absent THEN << >> ELSE key :> value

ExtractMessages ==
    { Dict(Opt("detail", d) @@ Opt("detail-type", dt) @@ Opt("type", ty)
           @@ Opt("source", so) @@ Opt("timestamp", ts) @@ Opt("time", ti)) :
          d  \in { Absent, EmptyDict, Dict("priority" :> Str(S_high)), PyNone },
          dt \in { Absent, Str(S_Info) },
          ty \in { Absent, Str(S_UserRegistered) },
          so \in { Absent, Str(S_app) },
          ts \in { Absent, Str(S_now), PyNone, Str(<< >>) },
          ti \in { Absent, Str(S_now) } }
    \cup { PyNone, Num(42), Bool(TRUE), List(<< >>), Str(S_hello) }

ExtractInit ==
    /\ ex_message \in ExtractMessages
    /\ ex_pc = "start"
    /\ ex_notification = Ok(<< >>)

\* process_message, line 94
ExtractDetails ==
    /\ ex_pc = "start"
    /\ ex_notification' = extract_notification_details(ex_message)
    /\ ex_pc' = "done"
    /\ UNCHANGED ex_message

-----------------------------------------------------------------------------
(* Specifications *)

ProcessorIdle ==
    /\ ep_event = EmptyDict
    /\ ep_pc = "done"
    /\ ep_result = Ok(<< >>)
    /\ ep_forward = FALSE
    /\ ep_invocations = << >>
    /\ ep_response = NoResponse

NotifierIdle ==
    /\ SLACK_WEBHOOK_URL = PyNone
    /\ sn_event = EmptyDict
    /\ sn_pc = "done"
    /\ sn_message = << >>
    /\ sn_result = Ok(<< >>)
    /\ sn_requests = << >>
    /\ sn_response = NoResponse

ExtractIdle ==
    /\ ex_message = EmptyDict
    /\ ex_pc = "done"
    /\ ex_notification = Ok(<< >>)

Init == ConsumerInit /\ ProcessorIdle /\ NotifierIdle /\ ExtractIdle

Next ==
    \/ Receive /\ UNCHANGED <<processor_vars, notifier_vars, extract_vars>>
    \/ ProcessRecord /\ UNCHANGED <<processor_vars, notifier_vars, extract_vars>>
    \/ Return /\ UNCHANGED <<processor_vars, notifier_vars, extract_vars>>
    \/ Redeliver /\ UNCHANGED <<processor_vars, notifier_vars, extract_vars>>

\* the queue and the queue consumer
Spec == Init /\ [][Next]_vars

\* one record in the queue
InitRecord ==
    /\ queue \in { << r >> : r \in { ("messageId" :> 1) @@ ("body" :> b) : b \in RecordBodies }
                                  \cup { "messageId" :> 1 } }
    /\ Records = << >>
    /\ idx = 1
    /\ successful_messages = << >>
    /\ failed_messages = << >>
    /\ response = NoResponse
    /\ invocations = << >>
    /\ pc = "idle"
    /\ deliveries = 0
    /\ succeeded_ever = {}
    /\ prev_failed = {}
    /\ SLACK_NOTIFIER_ARN \in BOOLEAN
    /\ ProcessorIdle
    /\ NotifierIdle
    /\ ExtractIdle

\* the queue consumer with a queue of one record
SpecRecord == InitRecord /\ [][Next]_vars

\* one record for the queue consumer and one event for the event processor,
\* both functions with the same setting of SLACK_NOTIFIER_ARN
InitDeployment ==
    /\ queue \in { << r >> : r \in QueueRecords(1) }
    /\ Records = << >>
    /\ idx = 1
    /\ successful_messages = << >>
    /\ failed_messages = << >>
    /\ response = NoResponse
    /\ invocations = << >>
    /\ pc = "idle"
    /\ deliveries = 0
    /\ succeeded_ever = {}
    /\ prev_failed = {}
    /\ SLACK_NOTIFIER_ARN \in BOOLEAN
    /\ ep_event \in { Dict(("source" :> Str(S_app)) @@ ("detail-type" :> ty) @@ ("detail" :> d)) :
                          ty \in { Str(S_Error), Str(S_Info), Str(S_UserRegistered) },
                          d \in { EmptyDict, Dict("priority" :> Str(S_high)), PyNone } }
    /\ ep_pc = "start"
    /\ ep_result = Ok(<< >>)
    /\ ep_forward = FALSE
    /\ ep_invocations = << >>
    /\ ep_response = NoResponse
    /\ NotifierIdle
    /\ ExtractIdle

ProcessorNext ==
    \/ EpClassify /\ UNCHANGED <<consumer_vars, notifier_vars, extract_vars>>
    \/ EpNotifySlack /\ UNCHANGED <<consumer_vars, notifier_vars, extract_vars>>
    \/ EpReturnOk /\ UNCHANGED <<consumer_vars, notifier_vars, extract_vars>>
    \/ EpSendError /\ UNCHANGED <<consumer_vars, notifier_vars, extract_vars>>
    \/ EpReturnError /\ UNCHANGED <<consumer_vars, notifier_vars, extract_vars>>

DeploymentNext == Next \/ ProcessorNext

\* the queue consumer and the event processor side by side
SpecDeployment == InitDeployment /\ [][DeploymentNext]_vars

InitProcessor == ConsumerIdle /\ ProcessorInit /\ NotifierIdle /\ ExtractIdle

\* the event processor
SpecProcessor == InitProcessor /\ [][ProcessorNext]_vars

NotifierNext ==
    \/ SnCheckConfig /\ UNCHANGED <<consumer_vars, SLACK_NOTIFIER_ARN, processor_vars, extract_vars>>
    \/ SnBuildMessage /\ UNCHANGED <<consumer_vars, SLACK_NOTIFIER_ARN, processor_vars, extract_vars>>
    \/ SnSendToSlack /\ UNCHANGED <<consumer_vars, SLACK_NOTIFIER_ARN, processor_vars, extract_vars>>
    \/ SnReturnOk /\ UNCHANGED <<consumer_vars, SLACK_NOTIFIER_ARN, processor_vars, extract_vars>>
    \/ SnReturnError /\ UNCHANGED <<consumer_vars, SLACK_NOTIFIER_ARN, processor_vars, extract_vars>>

InitNotifier ==
    ConsumerIdle /\ SLACK_NOTIFIER_ARN = FALSE /\ ProcessorIdle /\ NotifierInit /\ ExtractIdle

\* the slack notifier
SpecNotifier == InitNotifier /\ [][NotifierNext]_vars

ExtractNext ==
    ExtractDetails /\ UNCHANGED <<consumer_vars, SLACK_NOTIFIER_ARN, processor_vars, notifier_vars>>

InitExtract ==
    ConsumerIdle /\ SLACK_NOTIFIER_ARN = FALSE /\ ProcessorIdle /\ NotifierIdle /\ ExtractInit

\* extract_notification_details of the queue consumer, applied to one message
SpecExtract == InitExtract /\ [][ExtractNext]_vars

-----------------------------------------------------------------------------
(* Properties of the queue consumer, checked under Spec *)

SuccessfulIds == [i \in 1..Len(successful_messages) |-> successful_messages[i].messageId]
FailedIds == [i \in 1..Len(failed_messages) |-> failed_messages[i].messageId]
BatchItemFailureIds ==
    IF "batchItemFailures" \in DOMAIN response
    THEN [i \in 1..Len(response.batchItemFailures) |->
              response.batchItemFailures[i].itemIdentifier]
    ELSE << >>
Range(seq) == { seq[i] : i \in 1..Len(seq) }

\* C1: the batchItemFailures of a returned response name exactly the messageIds
\* of failed_messages, once each, and the key is omitted or empty when no
\* record failed.
C1_BatchItemFailuresExact ==
    pc = "returned" =>
        /\ BatchItemFailureIds = FailedIds
        /\ response.body.enc.failed_messages = failed_messages
        /\ (Len(failed_messages) = 0 =>
               \/ "batchItemFailures" \notin DOMAIN response
               \/ Len(response.batchItemFailures) = 0)

C1_Witness ==
    /\ pc = "returned"
    /\ Len(failed_messages) = 2
    /\ Len(successful_messages) = 1
    /\ Len(response.batchItemFailures) = 2

\* C2: lambda_handler goes through the whole batch and returns: in the returned
\* result every input record is in exactly one of successful_messages and
\* failed_messages, and processed + failed is the number of input records.
C2_EveryRecordAccounted ==
    pc = "returned" =>
        /\ response # NoResponse
        /\ \A i \in 1..Len(Records) :
              LET id == MessageId(Records[i]) IN
              /\ Cardinality({ k \in 1..Len(SuccessfulIds) : SuccessfulIds[k] = id })
                 + Cardinality({ k \in 1..Len(FailedIds) : FailedIds[k] = id }) = 1
        /\ response.body.enc.processed + response.body.enc.failed = Len(Records)
        /\ response.body.enc.processed = Len(response.body.enc.successful_messages)
        /\ response.body.enc.failed = Len(response.body.enc.failed_messages)

C2_Witness ==
    /\ pc = "returned"
    /\ Len(Records) = 3
    /\ FailedIds = << MessageId(Records[1]) >>
    /\ Len(successful_messages) = 2

\* C3: a record whose notifier invocation raised is reported in
\* successful_messages and is named neither in failed_messages nor in
\* batchItemFailures.
C3_InvokeFailureKeepsRecord ==
    \A k \in 1..Len(invocations) :
        invocations[k].call.raised =>
            /\ invocations[k].messageId \in Range(SuccessfulIds)
            /\ invocations[k].messageId \notin Range(FailedIds)
            /\ invocations[k].messageId \notin Range(BatchItemFailureIds)

C3_Witness ==
    /\ pc = "returned"
    /\ \E k \in 1..Len(invocations) :
          /\ invocations[k].call.raised
          /\ invocations[k].messageId \in Range(SuccessfulIds)
    /\ Len(failed_messages) > 0

\* C4: a record whose body is text that does not decode is processed as a
\* generic notification of the raw message and is reported succeeded, never
\* failed.
C4_DecodeFailureSucceeds ==
    \A i \in 1..Len(Records) :
        (/\ pc \in {"loop", "returned"}
         /\ i < idx
         /\ "body" \in DOMAIN Records[i]
         /\ json_loads(Records[i]["body"]) = Raise("JSONDecodeError")) =>
            /\ MessageId(Records[i]) \notin Range(FailedIds)
            /\ MessageId(Records[i]) \notin Range(BatchItemFailureIds)
            /\ \E k \in 1..Len(successful_messages) :
                  /\ successful_messages[k].messageId = MessageId(Records[i])
                  /\ successful_messages[k].result.result.action = "generic_processed"
                  /\ successful_messages[k].result.notification_type = Str(S_notification)

C4_Witness ==
    /\ pc = "returned"
    /\ \E i \in 1..Len(Records) :
          /\ Records[i] = ("messageId" :> MessageId(Records[i])) @@ ("body" :> Str(S_hello))
          /\ MessageId(Records[i]) \in Range(SuccessfulIds)

\* C5: every processed record has the outcome it has when dispatched alone: it
\* is in failed_messages, with its messageId and the error, iff its own
\* processing raises, and in successful_messages otherwise, whatever the other
\* records of the batch do.
C5_RecordIsolation ==
    \A i \in 1..Len(Records) :
        (pc \in {"loop", "returned"} /\ i < idx) =>
            LET alone == process_message(Records[i], SLACK_NOTIFIER_ARN, TRUE).out
                id == MessageId(Records[i])
            IN  IF alone.ok
                THEN /\ id \in Range(SuccessfulIds)
                     /\ id \notin Range(FailedIds)
                ELSE /\ [messageId |-> id, error |-> alone.err] \in Range(failed_messages)
                     /\ id \notin Range(SuccessfulIds)

\* record 2 is malformed JSON, the processing of record 3 raises
C5_Witness ==
    /\ pc = "returned"
    /\ Len(Records) = 3
    /\ Records[2] = ("messageId" :> 2) @@ ("body" :> Str(S_hello))
    /\ Records[3] = ("messageId" :> 3) @@ ("body" :> EventBridgeMessage(Str(S_Error), PyNone))
    /\ SuccessfulIds = <<1, 2>>
    /\ BatchItemFailureIds = <<3>>

\* C6: with the queue redelivering exactly the records batchItemFailures names,
\* no record reported succeeded by an invocation is handed to the consumer
\* again, and a redelivered batch holds only records the preceding invocation
\* reported failed.
C6_RedeliveryPerRecord ==
    /\ pc \in {"loop", "returned"} =>
          /\ Ids(Records) \cap succeeded_ever = {}
          /\ (deliveries > 1 => Ids(Records) \subseteq prev_failed)
    /\ Ids(queue) \cap succeeded_ever = {}

C6_Witness ==
    /\ pc = "loop"
    /\ deliveries = 2
    /\ succeeded_ever # {}
    /\ Len(Records) > 0

\* C7: the ids of successful_messages, of failed_messages and of
\* batchItemFailures are in the order of their records in the input batch.
PositionOf(id) == CHOOSE i \in 1..Len(Records) : MessageId(Records[i]) = id

InInputOrder(ids) ==
    /\ \A k \in 1..Len(ids) : \E i \in 1..Len(Records) : MessageId(Records[i]) = ids[k]
    /\ \A a, b \in 1..Len(ids) : a < b => PositionOf(ids[a]) < PositionOf(ids[b])

C7_InputOrderPreserved ==
    pc \in {"loop", "returned"} =>
        /\ InInputOrder(SuccessfulIds)
        /\ InInputOrder(FailedIds)
        /\ InInputOrder(BatchItemFailureIds)
        /\ (pc = "returned" =>
               /\ InInputOrder([i \in 1..Len(response.body.enc.successful_messages) |->
                                    response.body.enc.successful_messages[i].messageId])
               /\ InInputOrder([i \in 1..Len(response.body.enc.failed_messages) |->
                                    response.body.enc.failed_messages[i].messageId]))

C7_Witness ==
    /\ pc = "returned"
    /\ Len(Records) = 3
    /\ FailedIds = << MessageId(Records[1]), MessageId(Records[3]) >>
    /\ BatchItemFailureIds = FailedIds
    /\ SuccessfulIds = << MessageId(Records[2]) >>

\* C10: the queue consumer forwards a record to the notifier exactly when the
\* Classifier rule says so: the priority of the envelope, in any case, is one of
\* high, critical, urgent, or its type is exactly one of Error, Failure,
\* Payment Failed, Security Alert.
C10_ConsumerAppliesClassifierRule ==
    \A i \in 1..Len(Records) :
        (/\ pc \in {"loop", "returned"}
         /\ i < idx
         /\ SLACK_NOTIFIER_ARN
         /\ "body" \in DOMAIN Records[i]
         /\ "enc" \in DOMAIN Records[i]["body"]
         /\ IsDict(Records[i]["body"].enc)
         /\ "detail" \in DOMAIN Records[i]["body"].enc.d
         /\ IsDict(Records[i]["body"].enc.d["detail"])
         /\ IsStr(Get(Records[i]["body"].enc.d, "detail-type", Str(S_unknown)))
         /\ IsStr(Get(Records[i]["body"].enc.d["detail"].d, "priority", Str(S_normal)))) =>
            LET type == Get(Records[i]["body"].enc.d, "detail-type", Str(S_unknown)).s
                priority == Get(Records[i]["body"].enc.d["detail"].d, "priority", Str(S_normal)).s
                rule == \/ Lower(priority) \in { <<"h", "i", "g", "h">>,
                                                 <<"c", "r", "i", "t", "i", "c", "a", "l">>,
                                                 <<"u", "r", "g", "e", "n", "t">> }
                        \/ type \in { <<"E", "r", "r", "o", "r">>,
                                      <<"F", "a", "i", "l", "u", "r", "e">>,
                                      <<"P", "a", "y", "m", "e", "n", "t", " ", "F", "a", "i", "l", "e", "d">>,
                                      <<"S", "e", "c", "u", "r", "i", "t", "y", " ", "A", "l", "e", "r", "t">> }
            IN  rule <=> \E k \in 1..Len(invocations) :
                            invocations[k].messageId = MessageId(Records[i])

\* the routing decision of the consumer for a record: TRUE iff the record gets
\* as far as should_notify_slack and that returns True
ForwardDecision(record) ==
    LET message_data == parse_body(Get(record, "body", PyNone)) IN
    /\ message_data.ok
    /\ LET extracted == extract_notification_details(message_data.val) IN
       /\ extracted.ok
       /\ handle_notification(extracted.val).ok
       /\ sqs_should_notify_slack(extracted.val) = Ok(TRUE)

InvocationsFor(id) == { k \in 1..Len(invocations) : invocations[k].messageId = id }

\* C11: within one consumer invocation the notifier is invoked at most once for
\* a record, never for a record whose routing decision is not to forward or
\* that the loop has not reached, and never again after an invocation raised.
C11_AtMostOneInvocationPerRecord ==
    pc \in {"loop", "returned"} =>
        /\ \A i \in 1..Len(Records) :
              LET n == Cardinality(InvocationsFor(MessageId(Records[i]))) IN
              /\ n <= 1
              /\ (~ForwardDecision(Records[i]) => n = 0)
              /\ (i >= idx => n = 0)
        /\ \A k \in 1..Len(invocations) : invocations[k].messageId \in Ids(Records)

C11_Witness ==
    /\ pc = "returned"
    /\ Len(Records) = 2
    /\ ForwardDecision(Records[1])
    /\ ~ForwardDecision(Records[2])
    /\ Len(invocations) = 1
    /\ invocations[1].messageId = MessageId(Records[1])
    /\ invocations[1].call.raised
    /\ Len(successful_messages) = 2

-----------------------------------------------------------------------------
(* Properties of the event processor, checked under SpecProcessor *)

ep_priority_present == IsDict(ep_detail) /\ "priority" \in DOMAIN ep_detail.d

\* C8: an envelope whose detail.priority is high, critical or urgent in any
\* letter case is forwarded to chat by the event processor, whatever its type.
C8_AnyCasePriorityForwards ==
    (/\ ep_pc # "start"
     /\ ep_priority_present
     /\ IsStr(ep_detail.d["priority"])
     /\ Lower(ep_detail.d["priority"].s) \in { <<"h", "i", "g", "h">>,
                                               <<"c", "r", "i", "t", "i", "c", "a", "l">>,
                                               <<"u", "r", "g", "e", "n", "t">> }) =>
        ep_result.ok /\ ep_forward

\* C9: an envelope whose priority is absent or "normal" is forwarded by the
\* event processor iff its type is exactly one of Error, Failure,
\* Payment Failed, Security Alert.
C9_NormalPriorityForwardsByExactType ==
    (/\ ep_pc # "start"
     /\ IsDict(ep_detail)
     /\ ("priority" \in DOMAIN ep_detail.d =>
            ep_detail.d["priority"] = Str(<<"n", "o", "r", "m", "a", "l">>))) =>
        /\ ep_result.ok
        /\ ep_forward <=>
              ep_detail_type \in
                  { Str(<<"E", "r", "r", "o", "r">>),
                    Str(<<"F", "a", "i", "l", "u", "r", "e">>),
                    Str(<<"P", "a", "y", "m", "e", "n", "t", " ", "F", "a", "i", "l", "e", "d">>),
                    Str(<<"S", "e", "c", "u", "r", "i", "t", "y", " ", "A", "l", "e", "r", "t">>) }

C9_Witness ==
    /\ ep_pc = "done"
    /\ IsDict(ep_detail)
    /\ "priority" \notin DOMAIN ep_detail.d
    /\ ep_detail_type = Str(S_PaymentFailed)
    /\ ep_forward
    /\ ep_response.statusCode = 200

-----------------------------------------------------------------------------
(* Properties of the slack notifier, checked under SpecNotifier *)

sn_detail == Get(sn_event.d, "detail", OrderedDict(<< >>))
sn_detail_type == Get(sn_event.d, "detail-type", Str(<<"N", "o", "t", "i", "f", "i", "c", "a", "t", "i", "o", "n">>))
sn_has_priority == IsDict(sn_detail) /\ \E i \in 1..Len(sn_detail.items) : sn_detail.items[i].k = S_priority
sn_priority == ItemGet(sn_detail.items, S_priority, PyNone)

\* build_slack_message has been called
sn_formatted == sn_pc \in {"send", "ok", "except", "done"} /\ Truthy(SLACK_WEBHOOK_URL)

sn_built == sn_message # << >>
sn_color == sn_message.attachments[1].color
sn_fields == sn_message.attachments[1].fields

\* C12: a priority of critical or urgent, in any letter case, gives the color
\* "danger" and a priority of high gives "warning", whatever the type.
C12_PriorityDecidesColor ==
    (/\ sn_formatted
     /\ sn_has_priority
     /\ IsStr(sn_priority)
     /\ Lower(sn_priority.s) \in { <<"c", "r", "i", "t", "i", "c", "a", "l">>,
                                   <<"u", "r", "g", "e", "n", "t">>,
                                   <<"h", "i", "g", "h">> }) =>
        /\ sn_built
        /\ sn_color = IF Lower(sn_priority.s) = <<"h", "i", "g", "h">>
                      THEN "warning" ELSE "danger"

\* priority "critical" with type "Success" is "danger", not "good"
C12_Witness ==
    /\ sn_pc = "done"
    /\ sn_has_priority
    /\ sn_priority = Str(S_critical)
    /\ sn_detail_type = Str(S_Success)
    /\ sn_built
    /\ sn_color = "danger"

\* the color of the first type rule that matches the lowercased type
TypeColor(type) ==
    IF \E word \in { <<"e", "r", "r", "o", "r">>, <<"f", "a", "i", "l", "u", "r", "e">>,
                     <<"f", "a", "i", "l", "e", "d">> } : Contains(Lower(type), word)
    THEN "danger"
    ELSE IF \E word \in { <<"w", "a", "r", "n", "i", "n", "g">>, <<"a", "l", "e", "r", "t">> } :
                Contains(Lower(type), word)
    THEN "warning"
    ELSE IF \E word \in { <<"s", "u", "c", "c", "e", "s", "s">>,
                          <<"c", "o", "m", "p", "l", "e", "t", "e", "d">> } :
                Contains(Lower(type), word)
    THEN "good"
    ELSE "#36a64f"

\* C13: when the priority is absent or a text other than critical, urgent and
\* high (in any case), the color is that of the first type rule matching the
\* lowercased type: error/failure/failed, then warning/alert, then
\* success/completed, then the default color.
C13_TypeKeywordColor ==
    (/\ sn_formatted
     /\ IsDict(sn_detail)
     /\ IsStr(sn_detail_type)
     /\ (sn_has_priority =>
            /\ IsStr(sn_priority)
            /\ Lower(sn_priority.s) \notin { <<"c", "r", "i", "t", "i", "c", "a", "l">>,
                                             <<"u", "r", "g", "e", "n", "t">>,
                                             <<"h", "i", "g", "h">> })) =>
        /\ sn_built
        /\ sn_color = TypeColor(sn_detail_type.s)

\* a type matching the first and the third rule
C13_Witness ==
    /\ sn_pc = "done"
    /\ sn_detail_type = Str(S_FailedSuccess)
    /\ sn_has_priority
    /\ sn_priority = Str(S_low)
    /\ sn_built
    /\ sn_color = "danger"

sn_source == Get(sn_event.d, "source", Str(<<"u", "n", "k", "n", "o", "w", "n">>))
sn_timestamp == ItemGet(sn_detail.items, S_timestamp, PyNone)

\* the detail entries that get a field of their own, in insertion order
CustomItems ==
    SelectSeq(sn_detail.items,
              LAMBDA e : /\ e.k \notin { <<"m", "e", "s", "s", "a", "g", "e">>,
                                         <<"p", "r", "i", "o", "r", "i", "t", "y">>,
                                         <<"t", "i", "m", "e", "s", "t", "a", "m", "p">> }
                         /\ ~(Len(e.k) > 0 /\ e.k[1] = "_"))

\* the number of fields ahead of the custom ones
FixedFields ==
    1 + (IF Truthy(sn_priority) THEN 1 ELSE 0) + (IF Truthy(sn_timestamp) THEN 1 ELSE 0)

Titles(fields) == [i \in 1..Len(fields) |-> fields[i].title]

\* C14: the fields are Source, then Priority (uppercased) if a priority is
\* given, then Timestamp if one is given, then one field per remaining detail
\* key in insertion order; message, priority, timestamp and keys that start
\* with an underscore get no field of their own.
C14_FieldOrderAndExclusion ==
    (sn_formatted /\ sn_built) =>
        /\ Len(sn_fields) = FixedFields + Len(CustomItems)
        /\ sn_fields[1].title = <<"S", "o", "u", "r", "c", "e">>
        /\ sn_fields[1].value = sn_source
        /\ (Truthy(sn_priority) =>
               /\ sn_fields[2].title = <<"P", "r", "i", "o", "r", "i", "t", "y">>
               /\ sn_fields[2].value = Str(Upper(sn_priority.s)))
        /\ (Truthy(sn_timestamp) =>
               /\ sn_fields[FixedFields].title = <<"T", "i", "m", "e", "s", "t", "a", "m", "p">>
               /\ sn_fields[FixedFields].value = sn_timestamp)
        /\ \A i \in 1..Len(CustomItems) :
               /\ sn_fields[FixedFields + i].title = Title(ReplaceUnderscores(CustomItems[i].k))
               /\ sn_fields[FixedFields + i].value = Str(PyStr(CustomItems[i].v))

\* detail = {message, region, priority: high} gives [Source, Priority, Region]
C14_Witness ==
    /\ sn_pc = "done"
    /\ sn_built
    /\ sn_detail = OrderedDict(<< Item(S_message, Str(S_x)), Item(S_region, Str(S_us_east_1)),
                                  Item(S_priority, Str(S_high)) >>)
    /\ Titles(sn_fields) = << <<"S", "o", "u", "r", "c", "e">>,
                              <<"P", "r", "i", "o", "r", "i", "t", "y">>,
                              <<"R", "e", "g", "i", "o", "n">> >>
    /\ sn_fields[2].value = Str(S_HIGH)

\* C15: a field made from a detail key is short iff its text has fewer than 40
\* characters: 39 characters are short, 40 are not.
C15_ShortFlagBoundary ==
    (sn_formatted /\ sn_built) =>
        \A i \in (FixedFields + 1)..Len(sn_fields) :
            /\ sn_fields[i].short <=> (Len(sn_fields[i].value.s) <= 39)
            /\ (Len(sn_fields[i].value.s) = 39 => sn_fields[i].short)
            /\ (Len(sn_fields[i].value.s) = 40 => ~sn_fields[i].short)

C15_Witness ==
    /\ sn_pc = "done"
    /\ sn_built
    /\ \E i, j \in (FixedFields + 1)..Len(sn_fields) :
          /\ Len(sn_fields[i].value.s) = 39 /\ sn_fields[i].short
          /\ Len(sn_fields[j].value.s) = 40 /\ ~sn_fields[j].short

\* C16: the fields made from the detail keys lose no entry and no two detail
\* keys give the same title, so the keys and their texts can be read back from
\* the fields.
C16_FieldsRoundTrip ==
    (sn_formatted /\ sn_built) =>
        /\ Len(sn_fields) - FixedFields = Len(CustomItems)
        /\ \A i, j \in (FixedFields + 1)..Len(sn_fields) :
               i # j => sn_fields[i].title # sn_fields[j].title

\* C17: when the webhook URL is missing or empty the handler answers at once
\* with an error result, builds no message and makes no request to the
\* webhook, whatever the event.
C17_NoWebhookNoRequest ==
    ~Truthy(SLACK_WEBHOOK_URL) =>
        /\ sn_requests = << >>
        /\ sn_message = << >>
        /\ sn_pc \in {"start", "done"}
        /\ (sn_pc = "done" => sn_response.statusCode = 500)

C17_Witness ==
    /\ SLACK_WEBHOOK_URL = Str(<< >>)
    /\ sn_pc = "done"
    /\ sn_response.statusCode = 500
    /\ sn_requests = << >>

\* the status the endpoint answered to the request of this invocation
sn_reply == sn_requests[Len(sn_requests)].reply

\* C18: send_to_slack returns the status and the response body exactly when
\* the endpoint answers 200; any other status raises an error with the status
\* and the body, a transport fault raises the transport error; the handler
\* answers 200 only after a send that succeeded and 500 otherwise.
C18_SenderOutcome ==
    /\ (sn_requests # << >>) =>
           /\ sn_result.ok <=> (sn_reply = 200)
           /\ (sn_reply = 200 => sn_result.val = [status |-> 200, response |-> "ok"])
           /\ (sn_reply \notin {0, 200} =>
                  sn_result.err = [status |-> sn_reply, data |-> "invalid_payload"])
           /\ (sn_reply = 0 => sn_result.err = [transport |-> "MaxRetryError"])
    /\ (sn_pc = "done") =>
           /\ sn_response.statusCode \in {200, 500}
           /\ (sn_response.statusCode = 200) <=> (sn_requests # << >> /\ sn_reply = 200)

\* the endpoint answered 400: the error carries status and body, the handler 500
C18_Witness ==
    /\ sn_pc = "done"
    /\ sn_requests # << >>
    /\ sn_reply = 400
    /\ sn_result = Raise([status |-> 400, data |-> "invalid_payload"])
    /\ sn_response.statusCode = 500

\* C19: an invocation of the notifier makes at most one request to the
\* webhook; after a failed send it makes no second one.
C19_AtMostOneRequest ==
    /\ Len(sn_requests) <= 1
    /\ (sn_pc \in {"except", "done"} /\ sn_requests # << >>) => Len(sn_requests) = 1

C19_Witness ==
    /\ sn_pc = "done"
    /\ Len(sn_requests) = 1
    /\ sn_requests[1].reply = 500
    /\ sn_response.statusCode = 500

-----------------------------------------------------------------------------
(* Properties of extract_notification_details, checked under SpecExtract *)

ex_derived == ex_pc = "done" /\ ex_notification.ok

\* the details of the notification are the detail mapping of an EventBridge
\* message, and the message itself in the custom format
DetailsPassedThrough ==
    ex_derived =>
        ex_notification.val.details =
            IF "detail" \in DOMAIN ex_message.d THEN ex_message.d["detail"] ELSE ex_message

\* C20: the notification derived from a message never has a null timestamp: a
\* message that carries no timestamp gets the current time; and its details
\* are the message's detail mapping, unchanged.
C20_TimestampDefaulted ==
    ex_derived =>
        /\ ex_notification.val.timestamp # PyNone
        /\ ({"timestamp", "time"} \cap DOMAIN ex_message.d = {} =>
               ex_notification.val.timestamp = Str(S_now))
        /\ ("detail" \in DOMAIN ex_message.d =>
               ex_notification.val.details = ex_message.d["detail"])

-----------------------------------------------------------------------------
(* Further properties of the event processor, checked under SpecProcessor *)

\* the action that goes with a type
ActionOf(detail_type) ==
    IF detail_type = Str(<<"U", "s", "e", "r", " ", "R", "e", "g", "i", "s", "t", "e", "r", "e", "d">>)
    THEN "send_welcome_email"
    ELSE IF detail_type = Str(<<"O", "r", "d", "e", "r", " ", "C", "r", "e", "a", "t", "e", "d">>)
    THEN "process_order"
    ELSE IF detail_type = Str(<<"P", "a", "y", "m", "e", "n", "t", " ", "F", "a", "i", "l", "e", "d">>)
    THEN "notify_support"
    ELSE "log_event"

ep_type_present == "detail-type" \in DOMAIN ep_event.d

\* C21: the result of process_event carries the action of the type:
\* send_welcome_email for User Registered, process_order for Order Created,
\* notify_support for Payment Failed and log_event for every other type, an
\* absent type (taken as "unknown") included.
C21_ActionInferredFromType ==
    (ep_pc # "start" /\ IsDict(ep_detail)) =>
        /\ ep_result.ok
        /\ ep_result.val["action"] = ActionOf(ep_detail_type)
        /\ (~ep_type_present => ep_result.val["action"] = "log_event")
        /\ ep_result.val["type"] = ep_detail_type

C21_Witness ==
    /\ ep_pc = "done"
    /\ ep_detail_type = Str(S_PaymentFailed)
    /\ ep_result.ok
    /\ ep_result.val["action"] = "notify_support"

-----------------------------------------------------------------------------
(* Further properties of the slack notifier, checked under SpecNotifier *)

sn_has(key) == \E i \in 1..Len(sn_detail.items) : sn_detail.items[i].k = key

\* every field the event carries has the type the formatter expects
sn_well_typed ==
    /\ IsDict(sn_detail)
    /\ IsStr(sn_detail_type)
    /\ (sn_has_priority => IsStr(sn_priority))

\* C22: whichever of source, detail-type, detail, detail.message,
\* detail.priority and detail.timestamp are left out, build_slack_message
\* raises nothing and returns a message made with the defaults: source
\* "unknown", type "Notification", text "No message provided", the default
\* color, no Priority field and no Timestamp field.
C22_MissingOptionalFieldsUseDefaults ==
    (sn_formatted /\ sn_well_typed) =>
        /\ sn_built
        /\ (sn_pc = "except" => sn_requests # << >>)
        /\ ("source" \notin DOMAIN sn_event.d =>
               sn_fields[1].value = Str(<<"u", "n", "k", "n", "o", "w", "n">>))
        /\ ("detail-type" \notin DOMAIN sn_event.d =>
               sn_message.text = Str(<<"*", "N", "o", "t", "i", "f", "i", "c", "a", "t", "i", "o", "n", "*">>))
        /\ (~sn_has(<<"m", "e", "s", "s", "a", "g", "e">>) =>
               sn_message.attachments[1].text =
                   Str(<<"N", "o", " ", "m", "e", "s", "s", "a", "g", "e", " ",
                         "p", "r", "o", "v", "i", "d", "e", "d">>))
        /\ (~sn_has_priority =>
               /\ sn_color = TypeColor(sn_detail_type.s)
               /\ ("detail-type" \notin DOMAIN sn_event.d => sn_color = "#36a64f")
               /\ \A i \in 1..Len(sn_fields) :
                      sn_fields[i].title # <<"P", "r", "i", "o", "r", "i", "t", "y">>)
        /\ (~sn_has(<<"t", "i", "m", "e", "s", "t", "a", "m", "p">>) =>
               \A i \in 1..Len(sn_fields) :
                   sn_fields[i].title # <<"T", "i", "m", "e", "s", "t", "a", "m", "p">>)

\* the empty event gives a message made of defaults only
C22_Witness ==
    /\ sn_pc = "done"
    /\ sn_event = EmptyDict
    /\ sn_built
    /\ sn_color = "#36a64f"
    /\ sn_fields = << [title |-> S_Source, value |-> Str(S_unknown), short |-> TRUE] >>
    /\ sn_message.attachments[1].text = Str(S_NoMessageProvided)

-----------------------------------------------------------------------------
(* Further properties of the queue consumer, checked under Spec *)

InvokedIds == { invocations[k].messageId : k \in 1..Len(invocations) }

\* C23: a record for which the notifier was invoked is reported succeeded,
\* whether the invocation returned or raised; a record reported failed or named
\* in batchItemFailures caused no invocation, so no record the queue hands out
\* again has had a notification sent by this invocation.
C23_InvokedRecordsSucceed ==
    pc \in {"loop", "returned"} =>
        /\ InvokedIds \subseteq Range(SuccessfulIds)
        /\ InvokedIds \cap Range(FailedIds) = {}
        /\ (pc = "returned" =>
               /\ InvokedIds \cap Range(BatchItemFailureIds) = {}
               /\ InvokedIds \cap Ids(Redelivered(Records, response)) = {})

\* one record notified (the call raised) and succeeded, another one failed
C23_Witness ==
    /\ pc = "returned"
    /\ Len(invocations) = 1
    /\ invocations[1].call.raised
    /\ invocations[1].messageId \in Range(SuccessfulIds)
    /\ Len(BatchItemFailureIds) = 1
    /\ Redelivered(Records, response) # << >>

-----------------------------------------------------------------------------
(* Properties of the queue consumer on one record, checked under SpecRecord *)

rec_body == Get(Records[1], "body", PyNone)
rec_decoded == json_loads(rec_body)
rec_processed == pc \in {"loop", "returned"} /\ idx > 1

\* the body is missing, or it is JSON text of a value that is not an object
NotAnObject ==
    \/ "body" \notin DOMAIN Records[1]
    \/ rec_decoded.ok /\ rec_decoded.val.t \in {"num", "str", "list", "bool", "null"}

\* C24: a record whose body is missing, or decodes to a number, a string, a
\* list, a boolean or null, is not wrapped as a raw message: it is reported
\* failed and named in batchItemFailures, and causes no notifier invocation.
C24_NonObjectBodyFails ==
    (rec_processed /\ NotAnObject) =>
        /\ parse_body(rec_body) # Ok(Dict("raw_message" :> rec_body))
        /\ Range(FailedIds) = {1}
        /\ successful_messages = << >>
        /\ invocations = << >>
        /\ (pc = "returned" => BatchItemFailureIds = <<1>>)

\* the body is the JSON text of a list
C24_Witness ==
    /\ pc = "returned"
    /\ rec_decoded = Ok(List(<< Num(1) >>))
    /\ BatchItemFailureIds = <<1>>
    /\ failed_messages[1].error = "AttributeError"

\* what process_message derives from the record's body
rec_notification == extract_notification_details(parse_body(rec_body).val).val

\* the record's priority is there and is not a string
PriorityNotAString ==
    /\ parse_body(rec_body).ok
    /\ extract_notification_details(parse_body(rec_body).val).ok
    /\ IsDict(rec_notification.details)
    /\ "priority" \in DOMAIN rec_notification.details.d
    /\ ~IsStr(rec_notification.details.d["priority"])

\* C25: a record whose priority is present and is not a string (null, a
\* number, ...) is reported failed and named in batchItemFailures although
\* handle_notification returned normally, because should_notify_slack
\* raises; the notifier is not invoked for it.
C25_NonStringPriorityFails ==
    (rec_processed /\ PriorityNotAString) =>
        /\ handle_notification(rec_notification).ok
        /\ ~sqs_should_notify_slack(rec_notification).ok
        /\ Range(FailedIds) = {1}
        /\ failed_messages[1].error = "AttributeError"
        /\ successful_messages = << >>
        /\ invocations = << >>
        /\ (pc = "returned" => BatchItemFailureIds = <<1>>)

\* a custom message with "priority": 1
C25_Witness ==
    /\ pc = "returned"
    /\ rec_body = CustomMessage(Str(S_Info), Num(1))
    /\ SLACK_NOTIFIER_ARN
    /\ handle_notification(rec_notification).ok
    /\ BatchItemFailureIds = <<1>>
    /\ invocations = << >>

-----------------------------------------------------------------------------
(* Properties of the event processor's handler, checked under SpecProcessor *)

ep_payload(k) == ep_invocations[k].Payload.enc

\* C26: an invocation of the event processor invokes the notifier at most once
\* and ends with a response.  When nothing raised it answers 200 and, with
\* the notifier configured, has invoked it once iff the decision was to
\* forward, also when that call raised.  When processing or classification
\* raised it answers 500 and has attempted one notification, of type Error
\* and priority high, and none with the event itself.
C26_OneInvocationAndAResponse ==
    /\ Len(ep_invocations) <= 1
    /\ (ep_pc \in {"start", "notify", "respond", "except", "failed"} => ENABLED ProcessorNext)
    /\ (ep_pc \in {"notify", "except"} => ep_invocations = << >>)
    /\ (ep_pc = "done" =>
           /\ ep_response.statusCode = IF ep_result.ok THEN 200 ELSE 500
           /\ (~SLACK_NOTIFIER_ARN => ep_invocations = << >>)
           /\ (SLACK_NOTIFIER_ARN /\ ep_result.ok =>
                  /\ Len(ep_invocations) = 1 <=> ep_forward
                  /\ (ep_forward => ep_payload(1) = ep_event))
           /\ (SLACK_NOTIFIER_ARN /\ ~ep_result.ok =>
                  /\ Len(ep_invocations) = 1
                  /\ ep_payload(1) # ep_event
                  /\ ep_payload(1).d["detail-type"] = Str(<<"E", "r", "r", "o", "r">>)
                  /\ ep_payload(1).d["detail"].d["priority"] = Str(<<"h", "i", "g", "h">>)))

\* the call of the notifier raised and the handler answered 200
C26_Witness ==
    /\ ep_pc = "done"
    /\ ep_result.ok
    /\ ep_forward
    /\ Len(ep_invocations) = 1
    /\ ep_invocations[1].raised
    /\ ep_response.statusCode = 200

-----------------------------------------------------------------------------
(* Properties of both functions, checked under SpecDeployment *)

\* C27: with SLACK_NOTIFIER_ARN unset or empty neither the queue consumer nor
\* the event processor invokes the notifier, and that fails nothing: a record
\* that qualifies for forwarding is reported succeeded and the event processor
\* answers 200 for an event it decided to forward.
C27_MissingNotifierArnIsNotFatal ==
    ~SLACK_NOTIFIER_ARN =>
        /\ invocations = << >>
        /\ ep_invocations = << >>
        /\ ((rec_processed /\ ForwardDecision(Records[1])) =>
               /\ Range(SuccessfulIds) = {1}
               /\ failed_messages = << >>
               /\ (pc = "returned" => BatchItemFailureIds = << >>))
        /\ (ep_pc \in {"notify", "respond"} => ep_result.ok)
        /\ ((ep_pc = "done" /\ ep_forward) =>
               /\ ep_result.ok
               /\ ep_response.statusCode = 200)

C27_Witness ==
    /\ ~SLACK_NOTIFIER_ARN
    /\ pc = "returned"
    /\ ForwardDecision(Records[1])
    /\ Range(SuccessfulIds) = {1}
    /\ invocations = << >>
    /\ ep_pc = "done"
    /\ ep_forward
    /\ ep_response.statusCode = 200
    /\ ep_invocations = << >>

-----------------------------------------------------------------------------
(* Properties of handle_notification, checked under SpecRecord *)

\* the action of a type: the first rule whose words the lowercased type contains
HandlerAction(type) ==
    LET t == Lower(type)
        Has(word) == Contains(t, word)
    IN  IF Has(<<"u", "s", "e", "r">>) /\ Has(<<"r", "e", "g", "i", "s", "t", "e", "r", "e", "d">>)
        THEN "user_registered"
        ELSE IF Has(<<"o", "r", "d", "e", "r">>) THEN "order_processed"
        ELSE IF Has(<<"p", "a", "y", "m", "e", "n", "t">>) THEN "payment_processed"
        ELSE IF Has(<<"e", "r", "r", "o", "r">>) \/ Has(<<"f", "a", "i", "l", "u", "r", "e">>)
        THEN "error_logged"
        ELSE "generic_processed"

\* the record got as far as handle_notification and that returned
rec_handled ==
    /\ rec_processed
    /\ parse_body(rec_body).ok
    /\ extract_notification_details(parse_body(rec_body).val).ok
    /\ handle_notification(rec_notification).ok

\* C28: handle_notification runs one handler, the first in the order
\* user+registered, order, payment, error or failure, generic whose words the
\* lowercased type contains; the result of a succeeded record carries that
\* handler's action, so "Payment Failure" gives payment_processed.
C28_FirstMatchingHandler ==
    rec_handled =>
        /\ handle_notification(rec_notification).val.action = HandlerAction(rec_notification.type.s)
        /\ (successful_messages # << >> =>
               successful_messages[1].result.result.action =
                   HandlerAction(rec_notification.type.s))

C28_Witness ==
    /\ pc = "returned"
    /\ rec_body = EventBridgeMessage(Str(S_PaymentFailure), EmptyDict)
    /\ Len(successful_messages) = 1
    /\ successful_messages[1].result.result.action = "payment_processed"

====
